---- MODULE Spec2Model ----
(***************************************************************************)
(* Vortex engine core: frame synchronization (SyncObjects and the render   *)
(* loop that drives it), the buffer allocator with its pools, the shader   *)
(* system and the command recording surface.                               *)
(*                                                                         *)
(* Each subsystem has its own specification over the shared variables; a   *)
(* specification leaves the variables of the other subsystems at their     *)
(* constructed values.                                                     *)
(***************************************************************************)
EXTENDS Integers, Sequences, FiniteSets, TLC

\* ---------------------------------------------------------------- bounds
\* number of render() calls the main loop makes
MaxFrames == 5
\* unsigned counters are modelled CounterBits wide (the code's are 32/64)
CounterBits == 4
\* native buffer handles the driver hands out
MaxBuffers == 2
\* largest requested allocation size
MaxSize == 2
\* buffer pools created
MaxPools == 2
\* allocations the callers hold at once
MaxIssued == 2
\* shader module handles the driver hands out
MaxModules == 6
\* native calls made on one command buffer
MaxCmds == 3
\* pipeline handles the driver hands out
MaxPipelines == 2
\* pipeline cache handles the driver hands out
MaxCaches == 2
\* pipeline layout handles the driver hands out
MaxLayouts == 1
\* latest write time a shader file gets
MaxFileTime == 2
\* semaphores and fences the driver has alive at once
MaxSyncObjects == 12
\* copies of allocations the callers hold at once
MaxCopies == 1
\* threads calling the allocator, and the calls they make in all
MaxThreads == 2
MaxCalls == 3
\* addresses vkMapMemory hands out
MaxPointers == 2

\* the values a device reports for an offset alignment limit
AlignmentLimits == {0, 1, 64, 255, 256, 257, 4096}

\* ------------------------------------------------------ program constants
\* SyncObjects(VkDevice, uint32_t maxFramesInFlight = 2)
MaxFramesInFlight == 2

UIntMod == 2 ^ CounterBits
Slots == 0 .. (MaxFramesInFlight - 1)

VARIABLES
    \* SyncObjects
    syncValid,        \* m_isValid
    currentFrame,     \* m_currentFrame
    framesInFlight,   \* m_framesInFlight
    fences,           \* m_inFlightFences[i]: "none" | "signaled" | "unsignaled"
    semaphores,       \* m_imageAvailableSemaphores[i], m_renderFinishedSemaphores[i]
                      \* hold a handle
    nativeSyncObjects,\* VkSemaphore and VkFence objects alive in the driver
    syncLast,         \* the last SyncObjects call and what it returned
    \* graphics queue and render loop
    gpuQueue,         \* slots of the submissions the GPU has not finished, oldest first
    pc,               \* next step of TriangleRenderer::render / main
    frameNo,          \* render() calls started by the main loop
    framesDone,       \* render() calls that ran to nextFrame
    frame,            \* the semaphores the current render() call has used
    \* BufferAllocator
    allocInitialized,      \* m_initialized
    memoryManager,         \* m_memoryManager != nullptr
    alignments,            \* m_alignments: buffer type -> alignment
    allocations,           \* m_allocations
    bufferMap,             \* m_bufferMap, as the set of its values (keyed by .buffer)
    bufferPools,           \* m_bufferPools
    totalAllocatedMemory,  \* m_totalAllocatedMemory
    bufferCount,           \* m_bufferCount
    allocationCount,       \* m_allocationCount
    nextHandle,            \* next handle the driver hands out
    nativeBuffers,         \* VkBuffer handles alive in the driver
    nativeMemory,          \* VkDeviceMemory handles alive in the driver
    issued,                \* BufferAllocation values the callers hold
    poolHandedOut,         \* pool buffer handle -> bytes allocateFromPool has handed out of it
    allocLast,             \* the last allocator call: operation, arguments, result,
                           \* and the counters before it
    copies,                \* copies of BufferAllocation values the callers made
    bufferDestroys,        \* VkBuffer handle -> vkDestroyBuffer calls made on it
    memoryFrees,           \* VkDeviceMemory handle -> vkFreeMemory calls made on it
    bufferMutex,           \* m_bufferMutex: NULL, or the thread that holds it
    allocThreads,          \* thread -> the allocator call it is in
    \* ShaderSystem
    shaderInitialized,     \* m_initialized
    shaders,               \* m_shaders: name -> ShaderData
    shaderModules,         \* VkShaderModule handles alive in the driver
    nextModule,            \* next module handle the driver hands out
    shaderMutex,           \* m_shaderMutex: "free" | "deadlocked"
    hotReloadEnabled,      \* m_hotReloadEnabled
    fileWatcher,           \* m_fileWatcher != nullptr
    shaderLast,            \* the last shader-system call and how it ended
    sourceTimes,           \* shader name -> write times of its two source files
    \* CommandBuffer
    cmdHandle,             \* m_commandBuffer
    isRecording,           \* m_isRecording
    nativeCount,           \* native calls made on the command buffer
    lastNative,            \* the most recent of them
    cmdLast,               \* the last CommandBuffer call and its native result
    \* PipelineSystem
    pipeInitialized,       \* m_initialized
    pipelineCacheEnabled,  \* m_pipelineCacheEnabled
    pipelineCache,         \* m_pipelineCache
    pipelines,             \* m_pipelines, as the set of its keys
    pipelineLayouts,       \* m_pipelineLayouts, as the set of its keys
    pipelineStates,        \* m_pipelineStates: name -> PipelineState
    nativePipelines,       \* VkPipeline handles alive in the driver
    pipelineDestroys,      \* VkPipeline handle -> vkDestroyPipeline calls made on it
    nextPipeline,          \* next pipeline handle the driver hands out
    nativeCaches,          \* VkPipelineCache handles alive in the driver
    nextCache,             \* next cache handle the driver hands out
    nextLayout,            \* next layout handle the driver hands out
    pipeLast               \* the last PipelineSystem call, its arguments and results

syncVars == <<syncValid, currentFrame, framesInFlight, fences, semaphores,
              nativeSyncObjects, syncLast>>
loopVars == <<gpuQueue, pc, frameNo, framesDone, frame>>
allocVars == <<allocInitialized, memoryManager, alignments, allocations, bufferMap,
               bufferPools, totalAllocatedMemory, bufferCount, allocationCount,
               nextHandle, nativeBuffers, nativeMemory, issued, poolHandedOut,
               allocLast, copies, bufferDestroys, memoryFrees, bufferMutex,
               allocThreads>>

shaderVars == <<shaderInitialized, shaders, shaderModules, nextModule,
                shaderMutex, hotReloadEnabled, fileWatcher, shaderLast,
                sourceTimes>>
cmdVars == <<cmdHandle, isRecording, nativeCount, lastNative, cmdLast>>

pipeVars == <<pipeInitialized, pipelineCacheEnabled, pipelineCache, pipelines,
              pipelineLayouts, pipelineStates, nativePipelines,
              pipelineDestroys, nextPipeline, nativeCaches, nextCache,
              nextLayout, pipeLast>>

vars == <<syncVars, loopVars, allocVars, shaderVars, cmdVars, pipeVars>>

\* ======================================================================
\* SyncObjects
\* ======================================================================

\* number of unfinished submissions that will signal slot s's fence
RECURSIVE CountIn(_, _)
CountIn(q, s) ==
    IF q = <<>> THEN 0
    ELSE (IF Head(q) = s THEN 1 ELSE 0) + CountIn(Tail(q), s)

gpuPending(s) == CountIn(gpuQueue, s)

\* the record of one call
SyncCall(op, ok) == [op |-> op, ok |-> ok]

\* the members a call on an object that is not valid leaves alone
syncState == <<syncValid, currentFrame, framesInFlight, fences, semaphores,
               nativeSyncObjects>>

\* constructor: nothing created yet
SyncInit ==
    /\ syncValid = FALSE
    /\ currentFrame = 0
    /\ framesInFlight = 0
    /\ fences = [s \in Slots |-> "none"]
    /\ semaphores = [s \in Slots |-> [imageAvailable |-> FALSE,
                                      renderFinished |-> FALSE]]
    /\ nativeSyncObjects = 0
    /\ syncLast = SyncCall("none", TRUE)

\* native creations of one create(): two semaphores and a fence per slot
SemaphoreCreates == 2 * MaxFramesInFlight
NativeCreates == 3 * MaxFramesInFlight

\* position of a creation in the order create() makes them: createSemaphores
\* makes imageAvailable[s] then renderFinished[s] slot by slot, createFences
\* then makes the fences
ImageAvailableAt(s) == 2 * s + 1
RenderFinishedAt(s) == 2 * s + 2
FenceAt(s) == SemaphoreCreates + s + 1

\* the creation at position k is made and succeeds when the failing one is
\* failAt (0: none fails)
Created(k, failAt) == failAt = 0 \/ k < failAt

\* create(): createSemaphores, then createFences (fences start signaled).
\* A failure in createSemaphores returns with what was created left in the
\* vectors; a failure in createFences runs cleanupSemaphores and leaves the
\* fences created so far.  A handle that a creation overwrites stays alive
\* in the driver.
create(failAt) ==
    IF syncValid
    THEN UNCHANGED syncState /\ syncLast' = SyncCall("create", TRUE)
    ELSE /\ syncValid' = (failAt = 0)
         /\ syncLast' = SyncCall("create", failAt = 0)
         /\ semaphores' =
               [s \in Slots |->
                  IF failAt > SemaphoreCreates
                  THEN [imageAvailable |-> FALSE, renderFinished |-> FALSE]
                  ELSE [imageAvailable |->
                            \/ Created(ImageAvailableAt(s), failAt)
                            \/ semaphores[s].imageAvailable,
                        renderFinished |->
                            \/ Created(RenderFinishedAt(s), failAt)
                            \/ semaphores[s].renderFinished]]
         /\ fences' =
               [s \in Slots |->
                  IF Created(FenceAt(s), failAt) THEN "signaled" ELSE fences[s]]
         /\ nativeSyncObjects' =
               nativeSyncObjects +
                  (IF failAt = 0 THEN NativeCreates
                   ELSE IF failAt > SemaphoreCreates
                   THEN failAt - 1 - SemaphoreCreates
                   ELSE failAt - 1)
         /\ UNCHANGED <<currentFrame, framesInFlight>>

\* the handles the vectors hold
HeldSyncObjects ==
    Cardinality({s \in Slots : semaphores[s].imageAvailable})
      + Cardinality({s \in Slots : semaphores[s].renderFinished})
      + Cardinality({s \in Slots : fences[s] # "none"})

\* destroy(): cleanupSemaphores, cleanupFences, the vectors cleared
destroy ==
    /\ syncLast' = SyncCall("destroy", TRUE)
    /\ IF ~syncValid
       THEN UNCHANGED syncState
       ELSE /\ nativeSyncObjects' = nativeSyncObjects - HeldSyncObjects
            /\ semaphores' = [s \in Slots |-> [imageAvailable |-> FALSE,
                                               renderFinished |-> FALSE]]
            /\ fences' = [s \in Slots |-> "none"]
            /\ syncValid' = FALSE
            /\ UNCHANGED <<currentFrame, framesInFlight>>

\* waitForFrame(): vkWaitForFences blocks until the fence is signaled, but is
\* only called when m_framesInFlight > 0
waitForFrameReturns ==
    \/ ~syncValid
    \/ framesInFlight = 0
    \/ fences[currentFrame] = "signaled"

\* vkResetFences on the current slot's fence; resetting a fence that a pending
\* submission will still signal is invalid usage, its state is then arbitrary
resetCurrentFence ==
    IF gpuPending(currentFrame) > 0
    THEN \E st \in {"signaled", "unsignaled"} :
            fences' = [fences EXCEPT ![currentFrame] = st]
    ELSE fences' = [fences EXCEPT ![currentFrame] = "unsignaled"]

\* beginFrame without the test of m_isValid
beginFrame_Unguarded ==
    /\ syncLast' = SyncCall("beginFrame", TRUE)
    /\ waitForFrameReturns
    /\ resetCurrentFence
    /\ framesInFlight' = (framesInFlight + 1) % UIntMod
    /\ UNCHANGED <<syncValid, currentFrame, semaphores, nativeSyncObjects>>

beginFrame ==
    /\ syncLast' = SyncCall("beginFrame", TRUE)
    /\ IF ~syncValid
       THEN UNCHANGED syncState
       ELSE /\ waitForFrameReturns
            /\ resetCurrentFence
            /\ framesInFlight' = (framesInFlight + 1) % UIntMod
            /\ UNCHANGED <<syncValid, currentFrame, semaphores, nativeSyncObjects>>

\* endFrame that forgets the decrement
endFrame_NoDecrement ==
    /\ syncLast' = SyncCall("endFrame", TRUE)
    /\ UNCHANGED syncState

endFrame ==
    /\ syncLast' = SyncCall("endFrame", TRUE)
    /\ IF ~syncValid
       THEN UNCHANGED syncState
       ELSE /\ framesInFlight' = (framesInFlight + UIntMod - 1) % UIntMod
            /\ UNCHANGED <<syncValid, currentFrame, fences, semaphores,
                           nativeSyncObjects>>

\* nextFrame without the modulo
nextFrame_NoWrap ==
    /\ syncLast' = SyncCall("nextFrame", TRUE)
    /\ currentFrame' = currentFrame + 1
    /\ UNCHANGED <<syncValid, framesInFlight, fences, semaphores,
                   nativeSyncObjects>>

nextFrame ==
    /\ syncLast' = SyncCall("nextFrame", TRUE)
    /\ IF ~syncValid
       THEN UNCHANGED syncState
       ELSE /\ currentFrame' = (currentFrame + 1) % MaxFramesInFlight
            /\ UNCHANGED <<syncValid, framesInFlight, fences, semaphores,
                           nativeSyncObjects>>

\* a caller of SyncObjects making one call: create, destroy, beginFrame,
\* endFrame, nextFrame in any order
SyncCreate(failAt) ==
    /\ UNCHANGED <<loopVars, allocVars, shaderVars, cmdVars, pipeVars>>
    /\ syncValid \/ nativeSyncObjects + NativeCreates <= MaxSyncObjects
    /\ create(failAt)

SyncDestroy ==
    /\ UNCHANGED <<loopVars, allocVars, shaderVars, cmdVars, pipeVars>>
    /\ destroy

SyncBeginFrame ==
    /\ UNCHANGED <<loopVars, allocVars, shaderVars, cmdVars, pipeVars>>
    /\ beginFrame

SyncEndFrame ==
    /\ UNCHANGED <<loopVars, allocVars, shaderVars, cmdVars, pipeVars>>
    /\ endFrame

SyncNextFrame ==
    /\ UNCHANGED <<loopVars, allocVars, shaderVars, cmdVars, pipeVars>>
    /\ nextFrame

SyncNext ==
    \/ \E failAt \in 0 .. NativeCreates : SyncCreate(failAt)
    \/ SyncDestroy
    \/ SyncBeginFrame
    \/ SyncEndFrame
    \/ SyncNextFrame

\* ======================================================================
\* BufferAllocator
\* ======================================================================

NULL == 0

BufferTypes == {"Vertex", "Index", "Uniform", "Storage", "Staging", "Indirect"}

\* the types the modelled callers request
RequestTypes == {"Vertex", "Uniform"}

\* BufferAllocation{}: the null-handle sentinel
NullAllocation ==
    [buffer |-> NULL, memory |-> NULL, size |-> 0, offset |-> 0,
     type |-> "Count", mappedPtr |-> NULL, persistentMapping |-> FALSE]

\* the counters right now (what getTotalAllocatedMemory etc. return)
Counters ==
    [total |-> totalAllocatedMemory, buffers |-> bufferCount,
     allocs |-> allocationCount]

\* what the call record holds for calls whose earlier counters are not needed
NoCounters == [total |-> 0, buffers |-> 0, allocs |-> 0]

\* the call record after a call that returns no allocation
OtherCall ==
    [op |-> "other", type |-> "Count", size |-> 0, ret |-> NullAllocation,
     pre |-> NoCounters, cause |-> "none"]

\* the handles the driver hands out
BufferHandles == 1 .. MaxBuffers

\* the threads that call the allocator
Threads == 1 .. MaxThreads

\* a thread outside every allocator call; applied: what the
\* updateBufferTracking calls it has finished added to the counters
IdleThread ==
    [pc |-> "idle", op |-> "none", arg |-> NullAllocation, ret |-> NullAllocation,
     loaded |-> NoCounters, applied |-> NoCounters, calls |-> 0]

\* the members only the threads' calls touch
allocThreadVars == <<bufferMutex, allocThreads>>

\* usedSize of every pool, in pool order
UsedSizes == [i \in DOMAIN bufferPools |-> bufferPools[i].usedSize]

\* constructor: member initialisers of the class
AllocInit ==
    /\ allocInitialized = FALSE
    /\ memoryManager = FALSE
    /\ alignments = [t \in BufferTypes |-> 0]
    /\ allocations = <<>>
    /\ bufferMap = {}
    /\ bufferPools = <<>>
    /\ totalAllocatedMemory = 0
    /\ bufferCount = 0
    /\ allocationCount = 0
    /\ nextHandle = 1
    /\ nativeBuffers = {}
    /\ nativeMemory = {}
    /\ issued = {}
    /\ poolHandedOut = << >>
    /\ allocLast = OtherCall
    /\ copies = {}
    /\ bufferDestroys = [h \in BufferHandles |-> 0]
    /\ memoryFrees = [h \in BufferHandles |-> 0]
    /\ bufferMutex = NULL
    /\ allocThreads = [t \in Threads |-> IdleThread]

\* the counts after one more native destroy of every non-null handle in H
destroyedOnce(counts, H) ==
    [h \in DOMAIN counts |-> IF h \in H THEN counts[h] + 1 ELSE counts[h]]

\* updateBufferTracking that gives back a buffer but not its bytes
updateBufferTracking_KeepsBytes(a, allocate) ==
    IF allocate
    THEN /\ totalAllocatedMemory' = (totalAllocatedMemory + a.size) % UIntMod
         /\ bufferCount' = (bufferCount + 1) % UIntMod
         /\ allocationCount' = (allocationCount + 1) % UIntMod
    ELSE /\ totalAllocatedMemory' = totalAllocatedMemory
         /\ bufferCount' = (bufferCount + UIntMod - 1) % UIntMod
         /\ allocationCount' = (allocationCount + UIntMod - 1) % UIntMod

\* updateBufferTracking(allocation, allocate); std::max(0, x) on unsigned
\* operands changes nothing, the subtraction wraps
updateBufferTracking(a, allocate) ==
    IF allocate
    THEN /\ totalAllocatedMemory' = (totalAllocatedMemory + a.size) % UIntMod
         /\ bufferCount' = (bufferCount + 1) % UIntMod
         /\ allocationCount' = (allocationCount + 1) % UIntMod
    ELSE /\ totalAllocatedMemory' =
                (totalAllocatedMemory + UIntMod - (a.size % UIntMod)) % UIntMod
         /\ bufferCount' = (bufferCount + UIntMod - 1) % UIntMod
         /\ allocationCount' = (allocationCount + UIntMod - 1) % UIntMod

\* VkPhysicalDeviceLimits: the two limits initialize reads
DeviceLimits ==
    [minUniformBufferOffsetAlignment : AlignmentLimits,
     minStorageBufferOffsetAlignment : AlignmentLimits]

\* the limits of the device the allocator is initialized on where the
\* alignments, which no other operation reads, are not looked at
TypicalLimits ==
    [minUniformBufferOffsetAlignment |-> 256,
     minStorageBufferOffsetAlignment |-> 64]

Max(a, b) == IF a >= b THEN a ELSE b

\* the alignment initialize stores for a type, taken from the limit as it is
alignmentFor_NoFloor(type, limits) ==
    IF type = "Storage" THEN limits.minStorageBufferOffsetAlignment
    ELSE limits.minUniformBufferOffsetAlignment

\* the alignment initialize stores for a type: std::max(limit, floor)
alignmentFor(type, limits) ==
    IF type = "Uniform" THEN Max(limits.minUniformBufferOffsetAlignment, 256)
    ELSE IF type = "Storage" THEN Max(limits.minStorageBufferOffsetAlignment, 1)
    ELSE Max(limits.minUniformBufferOffsetAlignment, 1)

\* getAlignmentRequirement(type)
getAlignmentRequirement(type) == alignments[type]

\* initialize(device, physicalDevice, memoryManager) on a device with limits
AllocInitialize(limits) ==
    /\ UNCHANGED poolHandedOut
    /\ UNCHANGED <<syncVars, loopVars, shaderVars, cmdVars, pipeVars>>
    /\ UNCHANGED <<allocThreadVars, copies, bufferDestroys, memoryFrees>>
    /\ IF allocInitialized
       THEN UNCHANGED <<memoryManager, alignments>>
       ELSE /\ \E mm \in BOOLEAN : memoryManager' = mm
            /\ alignments' = [t \in BufferTypes |-> alignmentFor(t, limits)]
    /\ allocInitialized' = TRUE
    /\ allocLast' = OtherCall
    /\ UNCHANGED <<allocations, bufferMap, bufferPools, totalAllocatedMemory,
                   bufferCount, allocationCount, nextHandle, nativeBuffers,
                   nativeMemory, issued>>

\* what vkMapMemory can store in mappedPtr: an address, or nothing when it fails
MapResults == {NULL} \cup (1 .. MaxPointers)

\* mapBuffer that tests the handle only
mapBufferCallsNative_HandleOnly(a) == a.buffer # NULL

\* mapBuffer(allocation): whether it reaches vkMapMemory
mapBufferCallsNative(a) == a.buffer # NULL /\ a.mappedPtr = NULL

\* mapBuffer(allocation): the caller's object after the call, ptr being what
\* vkMapMemory stores; the call returns the mappedPtr of that object
mapBuffer(a, ptr) ==
    IF mapBufferCallsNative(a) THEN [a EXCEPT !.mappedPtr = ptr] ELSE a

\* unmapBuffer(allocation): whether it reaches vkUnmapMemory
unmapBufferCallsNative(a) == a.buffer # NULL /\ a.mappedPtr # NULL

\* unmapBuffer(allocation): the caller's object after the call
unmapBuffer(a) ==
    IF unmapBufferCallsNative(a) THEN [a EXCEPT !.mappedPtr = NULL] ELSE a

\* the call record of a mapBuffer / unmapBuffer call on the caller's object
\* a, which the call leaves as r: the pointer returned, whether the native
\* call was made, and whether the call before it was a mapBuffer that left
\* this same object
MapCall(op, a, r, native) ==
    [op |-> op, type |-> a.type, size |-> a.size, ret |-> r,
     pre |-> NoCounters, cause |-> "none", arg |-> a, ptr |-> r.mappedPtr,
     native |-> native,
     repeat |-> allocLast.op = "mapBuffer" /\ allocLast.ret = a]

\* the allocations the callers hold, a having become r
Reissued(a, r) == IF a \in issued THEN (issued \ {a}) \cup {r} ELSE issued

\* mapBuffer(allocation) on an allocation a caller holds or on the sentinel
MapBuffer(a, ptr) ==
    /\ UNCHANGED <<syncVars, loopVars, shaderVars, cmdVars, pipeVars>>
    /\ UNCHANGED <<alignments, allocThreadVars, copies, bufferDestroys, memoryFrees>>
    /\ allocLast' = MapCall("mapBuffer", a, mapBuffer(a, ptr),
                            mapBufferCallsNative(a))
    /\ issued' = Reissued(a, mapBuffer(a, ptr))
    /\ UNCHANGED <<allocInitialized, memoryManager, allocations, bufferMap,
                   bufferPools, totalAllocatedMemory, bufferCount,
                   allocationCount, nextHandle, nativeBuffers, nativeMemory,
                   poolHandedOut>>

\* unmapBuffer(allocation)
UnmapBuffer(a) ==
    /\ UNCHANGED <<syncVars, loopVars, shaderVars, cmdVars, pipeVars>>
    /\ UNCHANGED <<alignments, allocThreadVars, copies, bufferDestroys, memoryFrees>>
    /\ allocLast' = MapCall("unmapBuffer", a, unmapBuffer(a),
                            unmapBufferCallsNative(a))
    /\ issued' = Reissued(a, unmapBuffer(a))
    /\ UNCHANGED <<allocInitialized, memoryManager, allocations, bufferMap,
                   bufferPools, totalAllocatedMemory, bufferCount,
                   allocationCount, nextHandle, nativeBuffers, nativeMemory,
                   poolHandedOut>>

\* a call of getAlignmentRequirement(type): the call record holds what it
\* returned in size
GetAlignmentRequirement(type) ==
    /\ UNCHANGED <<syncVars, loopVars, shaderVars, cmdVars, pipeVars>>
    /\ UNCHANGED <<allocThreadVars, copies, bufferDestroys, memoryFrees>>
    /\ allocLast' = [op |-> "getAlignmentRequirement", type |-> type,
                     size |-> getAlignmentRequirement(type),
                     ret |-> NullAllocation, pre |-> NoCounters,
                     cause |-> "none"]
    /\ UNCHANGED <<allocInitialized, memoryManager, alignments, allocations,
                   bufferMap, bufferPools, totalAllocatedMemory, bufferCount,
                   allocationCount, nextHandle, nativeBuffers, nativeMemory,
                   issued, poolHandedOut>>

\* createBufferInternal: the allocation it returns, given the native results.
\* With a memory manager a failed memory allocation yields a null memory
\* handle that is bound unchecked.
createdAllocation(type, size, bufOk, memOk, bindOk) ==
    IF ~bufOk THEN NullAllocation
    ELSE IF ~memOk /\ ~memoryManager THEN NullAllocation
    ELSE IF ~bindOk THEN NullAllocation
    ELSE [buffer |-> nextHandle,
          memory |-> IF memOk THEN nextHandle ELSE NULL,
          size |-> size, offset |-> 0, type |-> type,
          mappedPtr |-> NULL, persistentMapping |-> FALSE]

\* why an allocateBuffer call should return the null-handle allocation: the
\* allocator is not initialized, vkCreateBuffer fails, or no memory type has
\* the requested properties
FailureCause(bufOk, typeOk) ==
    IF ~allocInitialized THEN "notInitialized"
    ELSE IF ~bufOk THEN "buffer"
    ELSE IF ~typeOk THEN "memoryType"
    ELSE "none"

\* allocateBuffer(type, size, usage, properties) = createBufferInternal under
\* the mutex, followed, in createUniformBuffer and createStagingBuffer
\* (persistent), by persistentMapping = true and mapBuffer on the returned
\* copy.  typeOk: a memory type has the requested properties.  The direct
\* path allocates from memory type 0 whatever the properties are, and
\* MemoryManager::allocateBufferMemory ignores the result of findMemoryType
\* and reads an index that was never written, so on both paths memory is
\* allocated or not (memOk) whatever typeOk is.  ptr: what vkMapMemory
\* stores in mappedPtr, NULL when it fails.
allocateInto(op, type, size, bufOk, typeOk, memOk, bindOk, persistent, ptr) ==
    /\ UNCHANGED poolHandedOut
    /\ UNCHANGED <<syncVars, loopVars, shaderVars, cmdVars, pipeVars>>
    /\ UNCHANGED <<alignments, allocThreadVars>>
    /\ UNCHANGED copies
    /\ bufferDestroys' =
          IF allocInitialized /\ bufOk
                /\ createdAllocation(type, size, bufOk, memOk, bindOk).buffer = NULL
          THEN destroyedOnce(bufferDestroys, {nextHandle})
          ELSE bufferDestroys
    /\ memoryFrees' =
          IF allocInitialized /\ bufOk /\ memOk /\ ~bindOk
          THEN destroyedOnce(memoryFrees, {nextHandle})
          ELSE memoryFrees
    /\ nextHandle <= MaxBuffers
    /\ LET a == IF allocInitialized
                THEN createdAllocation(type, size, bufOk, memOk, bindOk)
                ELSE NullAllocation
           r == IF a.buffer # NULL /\ persistent
                THEN mapBuffer([a EXCEPT !.persistentMapping = TRUE], ptr)
                ELSE a
       IN  /\ allocLast' = [op |-> op, type |-> type, size |-> size,
                            ret |-> r, pre |-> Counters,
                            cause |-> FailureCause(bufOk, typeOk)]
           /\ IF a.buffer # NULL
              THEN /\ allocations' = Append(allocations, a)
                   /\ bufferMap' = {e \in bufferMap : e.buffer # a.buffer} \cup {a}
                   /\ updateBufferTracking(a, TRUE)
                   /\ nativeBuffers' = nativeBuffers \cup {a.buffer}
                   /\ nativeMemory' = nativeMemory \cup ({a.memory} \ {NULL})
                   /\ issued' = issued \cup {r}
              ELSE UNCHANGED <<allocations, bufferMap, totalAllocatedMemory,
                               bufferCount, allocationCount, nativeBuffers,
                               nativeMemory, issued>>
           /\ nextHandle' = IF allocInitialized /\ bufOk
                            THEN nextHandle + 1 ELSE nextHandle
    /\ UNCHANGED <<allocInitialized, memoryManager, bufferPools>>

\* allocateBuffer(type, size, usage, properties)
AllocateBuffer(type, size, bufOk, typeOk, memOk, bindOk) ==
    allocateInto("allocateBuffer", type, size, bufOk, typeOk, memOk, bindOk,
                 FALSE, NULL)

\* createUniformBuffer(size)
CreateUniformBuffer(size, bufOk, typeOk, memOk, bindOk, ptr) ==
    allocateInto("createUniformBuffer", "Uniform", size, bufOk, typeOk, memOk,
                 bindOk, TRUE, ptr)

\* createStagingBuffer(size)
CreateStagingBuffer(size, bufOk, typeOk, memOk, bindOk, ptr) ==
    allocateInto("createStagingBuffer", "Staging", size, bufOk, typeOk, memOk,
                 bindOk, TRUE, ptr)

\* deallocateBuffer(allocation): destroyBufferInternal nulls the handles of
\* the caller's object before m_bufferMap.erase(allocation.buffer), so the
\* map entry stays; m_allocations is not touched; then updateBufferTracking
DeallocateBuffer(a) ==
    /\ UNCHANGED poolHandedOut
    /\ UNCHANGED <<syncVars, loopVars, shaderVars, cmdVars, pipeVars>>
    /\ UNCHANGED <<alignments, allocThreadVars>>
    /\ a \in issued \cup copies
    /\ IF ~allocInitialized \/ a.buffer = NULL
       THEN /\ UNCHANGED <<totalAllocatedMemory, bufferCount, allocationCount,
                           nativeBuffers, nativeMemory, issued, copies,
                           bufferDestroys, memoryFrees>>
            /\ allocLast' = OtherCall
       ELSE /\ nativeBuffers' = nativeBuffers \ {a.buffer}
            /\ nativeMemory' = nativeMemory \ {a.memory}
            /\ updateBufferTracking(a, FALSE)
            /\ bufferDestroys' = destroyedOnce(bufferDestroys, {a.buffer})
            /\ memoryFrees' = destroyedOnce(memoryFrees, {a.memory} \ {NULL})
            /\ issued' = issued \ {a}
            /\ copies' = IF a \in issued THEN copies ELSE copies \ {a}
            /\ allocLast' =
                 IF allocLast.op = "allocateBuffer" /\ allocLast.ret = a
                 THEN [allocLast EXCEPT !.op = "roundTrip"]
                 ELSE OtherCall
    /\ UNCHANGED <<allocInitialized, memoryManager, allocations, bufferPools,
                   nextHandle>>
    /\ bufferMap' = bufferMap

\* createBufferPool(type, size): createBufferPoolInternal leaves pool.buffer
\* null when a native call fails, and then the pool is not stored.  The call
\* record holds "failed" in cause when the call returns false.
CreateBufferPool(type, size, nativeOk) ==
    /\ UNCHANGED <<syncVars, loopVars, shaderVars, cmdVars, pipeVars>>
    /\ UNCHANGED <<alignments, allocThreadVars, copies, bufferDestroys, memoryFrees>>
    /\ nextHandle <= MaxBuffers
    /\ Len(bufferPools) < MaxPools
    /\ IF allocInitialized /\ nativeOk
       THEN /\ bufferPools' = Append(bufferPools,
                   [type |-> type, buffer |-> nextHandle, memory |-> nextHandle,
                    totalSize |-> size, usedSize |-> 0, allocations |-> <<>>,
                    alignment |-> getAlignmentRequirement(type)])
            /\ nativeBuffers' = nativeBuffers \cup {nextHandle}
            /\ nativeMemory' = nativeMemory \cup {nextHandle}
            /\ nextHandle' = nextHandle + 1
            /\ poolHandedOut' = [h \in (DOMAIN poolHandedOut) \cup {nextHandle} |->
                                    IF h = nextHandle THEN 0 ELSE poolHandedOut[h]]
       ELSE UNCHANGED <<bufferPools, nativeBuffers, nativeMemory, nextHandle,
                        poolHandedOut>>
    /\ allocLast' = [OtherCall EXCEPT !.op = "createBufferPool", !.type = type,
                                  !.size = size,
                                  !.cause = IF allocInitialized /\ nativeOk
                                            THEN "none" ELSE "failed"]
    /\ UNCHANGED <<allocInitialized, memoryManager, allocations, bufferMap,
                   totalAllocatedMemory, bufferCount, allocationCount, issued>>

\* the test with the space already used left out
PoolFits_IgnoresUsed(pool, type, size) ==
    pool.type = type /\ pool.totalSize >= size

\* the remaining space test of allocateFromPool / findBufferPool
PoolFits(pool, type, size) ==
    pool.type = type /\ (pool.totalSize - pool.usedSize) >= size

\* the last pool that fits instead of the first
FirstFit_LastFit(type, size) ==
    IF \E i \in DOMAIN bufferPools : PoolFits(bufferPools[i], type, size)
    THEN CHOOSE i \in DOMAIN bufferPools :
            /\ PoolFits(bufferPools[i], type, size)
            /\ \A j \in DOMAIN bufferPools :
                  PoolFits(bufferPools[j], type, size) => j <= i
    ELSE 0

\* index of the first pool that fits, 0 when none does
FirstFit(type, size) ==
    IF \E i \in DOMAIN bufferPools : PoolFits(bufferPools[i], type, size)
    THEN CHOOSE i \in DOMAIN bufferPools :
            /\ PoolFits(bufferPools[i], type, size)
            /\ \A j \in DOMAIN bufferPools :
                  PoolFits(bufferPools[j], type, size) => i <= j
    ELSE 0

\* allocateFromPool(type, size): bump allocation from the first fitting pool
AllocateFromPool(type, size) ==
    /\ UNCHANGED <<syncVars, loopVars, shaderVars, cmdVars, pipeVars>>
    /\ UNCHANGED <<alignments, allocThreadVars, copies, bufferDestroys, memoryFrees>>
    /\ (allocInitialized /\ FirstFit(type, size) # 0)
          => Cardinality(issued) < MaxIssued
    /\ LET i == IF allocInitialized THEN FirstFit(type, size) ELSE 0
           a == IF i = 0 THEN NullAllocation
                ELSE [buffer |-> bufferPools[i].buffer, memory |-> NULL,
                      size |-> size, offset |-> bufferPools[i].usedSize,
                      type |-> type, mappedPtr |-> NULL,
                      persistentMapping |-> FALSE]
       IN  /\ allocLast' = [op |-> "allocateFromPool", type |-> type,
                            size |-> size, ret |-> a, pre |-> NoCounters,
                            cause |-> "none"]
           /\ IF i # 0
              THEN /\ bufferPools' = [bufferPools EXCEPT
                          ![i].usedSize = bufferPools[i].usedSize + size,
                          ![i].allocations = Append(bufferPools[i].allocations, a)]
                   /\ updateBufferTracking(a, TRUE)
                   /\ issued' = issued \cup {a}
                   /\ poolHandedOut' = [poolHandedOut EXCEPT
                          ![a.buffer] = poolHandedOut[a.buffer] + size]
              ELSE UNCHANGED <<bufferPools, totalAllocatedMemory, bufferCount,
                               allocationCount, issued, poolHandedOut>>
    /\ UNCHANGED <<allocInitialized, memoryManager, allocations, bufferMap,
                   nextHandle, nativeBuffers, nativeMemory>>

\* the sequence without the entries matching offset and size (std::remove_if)
RECURSIVE RemoveMatching(_, _)
RemoveMatching(q, a) ==
    IF q = <<>> THEN <<>>
    ELSE IF Head(q).offset = a.offset /\ Head(q).size = a.size
         THEN RemoveMatching(Tail(q), a)
         ELSE <<Head(q)>> \o RemoveMatching(Tail(q), a)

\* deallocateFromPool that gives the bytes back to the bump offset
DeallocateFromPool_Reclaims(a) ==
    /\ UNCHANGED poolHandedOut
    /\ UNCHANGED <<syncVars, loopVars, shaderVars, cmdVars, pipeVars>>
    /\ UNCHANGED <<alignments, allocThreadVars>>
    /\ UNCHANGED <<bufferDestroys, memoryFrees>>
    /\ a \in issued \cup copies
    /\ LET owners == {i \in DOMAIN bufferPools : bufferPools[i].buffer = a.buffer}
       IN  IF ~allocInitialized \/ a.buffer = NULL \/ owners = {}
           THEN UNCHANGED <<bufferPools, totalAllocatedMemory, bufferCount,
                            allocationCount, issued, copies>>
           ELSE LET i == CHOOSE k \in owners : \A j \in owners : k <= j
                IN  /\ bufferPools' = [bufferPools EXCEPT
                           ![i].allocations = RemoveMatching(bufferPools[i].allocations, a),
                           ![i].usedSize = bufferPools[i].usedSize - a.size]
                    /\ updateBufferTracking(a, FALSE)
                    /\ issued' = issued \ {a}
                    /\ copies' = IF a \in issued THEN copies ELSE copies \ {a}
    /\ allocLast' = [op |-> "deallocateFromPool", type |-> a.type,
                     size |-> a.size, ret |-> a, pre |-> NoCounters,
                     cause |-> "none"]
    /\ UNCHANGED <<allocInitialized, memoryManager, allocations, bufferMap,
                   nextHandle, nativeBuffers, nativeMemory>>

\* deallocateFromPool(allocation): bookkeeping of the first pool with the
\* allocation's buffer handle, and the counters; usedSize is not touched
DeallocateFromPool(a) ==
    /\ UNCHANGED poolHandedOut
    /\ UNCHANGED <<syncVars, loopVars, shaderVars, cmdVars, pipeVars>>
    /\ UNCHANGED <<alignments, allocThreadVars>>
    /\ UNCHANGED <<bufferDestroys, memoryFrees>>
    /\ a \in issued \cup copies
    /\ LET owners == {i \in DOMAIN bufferPools : bufferPools[i].buffer = a.buffer}
       IN  IF ~allocInitialized \/ a.buffer = NULL \/ owners = {}
           THEN UNCHANGED <<bufferPools, totalAllocatedMemory, bufferCount,
                            allocationCount, issued, copies>>
           ELSE LET i == CHOOSE k \in owners : \A j \in owners : k <= j
                IN  /\ bufferPools' = [bufferPools EXCEPT
                           ![i].allocations = RemoveMatching(bufferPools[i].allocations, a)]
                    /\ updateBufferTracking(a, FALSE)
                    /\ issued' = issued \ {a}
                    /\ copies' = IF a \in issued THEN copies ELSE copies \ {a}
    /\ allocLast' = [op |-> "deallocateFromPool", type |-> a.type,
                     size |-> a.size, ret |-> a, pre |-> NoCounters,
                     cause |-> "none"]
    /\ UNCHANGED <<allocInitialized, memoryManager, allocations, bufferMap,
                   nextHandle, nativeBuffers, nativeMemory>>

\* a caller copies a BufferAllocation it holds (the struct is a value type)
CopyAllocation(a) ==
    /\ UNCHANGED <<syncVars, loopVars, shaderVars, cmdVars, pipeVars>>
    /\ UNCHANGED <<alignments, allocThreadVars, bufferDestroys, memoryFrees>>
    /\ a \in issued
    /\ a.buffer # NULL
    /\ Cardinality(copies) < MaxCopies
    /\ copies' = copies \cup {a}
    /\ allocLast' = [OtherCall EXCEPT !.op = "copy"]
    /\ UNCHANGED <<allocInitialized, memoryManager, allocations, bufferMap,
                   bufferPools, totalAllocatedMemory, bufferCount,
                   allocationCount, nextHandle, nativeBuffers, nativeMemory,
                   issued, poolHandedOut>>

\* handles of every pool
PoolBuffers == {bufferPools[i].buffer : i \in DOMAIN bufferPools}

\* cleanupBufferPools(): destroyBufferPoolInternal on every pool, then clear
CleanupBufferPools ==
    /\ UNCHANGED <<syncVars, loopVars, shaderVars, cmdVars, pipeVars>>
    /\ UNCHANGED <<alignments, allocThreadVars>>
    /\ UNCHANGED copies
    /\ bufferDestroys' = destroyedOnce(bufferDestroys, PoolBuffers)
    /\ memoryFrees' = destroyedOnce(memoryFrees, PoolBuffers)
    /\ bufferPools' = <<>>
    /\ poolHandedOut' = << >>
    /\ nativeBuffers' = nativeBuffers \ PoolBuffers
    /\ nativeMemory' = nativeMemory \ PoolBuffers
    /\ allocLast' = OtherCall
    /\ UNCHANGED <<allocInitialized, memoryManager, allocations, bufferMap,
                   totalAllocatedMemory, bufferCount, allocationCount,
                   nextHandle, issued>>

\* shutdown(): pools, then destroyBufferInternal on every entry of
\* m_allocations, then both tracking structures are cleared; the counters
\* are left as they are
AllocShutdown ==
    /\ UNCHANGED <<syncVars, loopVars, shaderVars, cmdVars, pipeVars>>
    /\ UNCHANGED <<alignments, allocThreadVars>>
    /\ UNCHANGED copies
    /\ bufferDestroys' =
          destroyedOnce(destroyedOnce(bufferDestroys, PoolBuffers),
                        {allocations[i].buffer : i \in DOMAIN allocations})
    /\ memoryFrees' =
          destroyedOnce(destroyedOnce(memoryFrees, PoolBuffers),
                        {allocations[i].memory : i \in DOMAIN allocations} \ {NULL})
    /\ allocInitialized
    /\ allocInitialized' = FALSE
    /\ bufferPools' = <<>>
    /\ poolHandedOut' = << >>
    /\ nativeBuffers' = (nativeBuffers \ PoolBuffers)
                           \ {allocations[i].buffer : i \in DOMAIN allocations}
    /\ nativeMemory' = (nativeMemory \ PoolBuffers)
                           \ {allocations[i].memory : i \in DOMAIN allocations}
    /\ allocations' = <<>>
    /\ bufferMap' = {}
    /\ allocLast' = OtherCall
    /\ UNCHANGED <<memoryManager, totalAllocatedMemory, bufferCount,
                   allocationCount, nextHandle, issued>>

Sizes == 1 .. MaxSize

\* what the native calls of createBufferInternal do: vkCreateBuffer, the
\* search for a memory type, vkAllocateMemory, vkBindBufferMemory.  After a
\* failed vkCreateBuffer the others are not reached.
NativeOutcomes ==
    {o \in [bufOk : BOOLEAN, typeOk : BOOLEAN, memOk : BOOLEAN, bindOk : BOOLEAN] :
        ~o.bufOk => (o.typeOk /\ o.memOk /\ o.bindOk)}

\* ----------------------------------------------------------------------
\* BufferAllocator called from several threads.  A call checks m_initialized,
\* takes m_bufferMutex with a lock_guard, changes the pools or the tracking
\* structures, reads the counters and writes them back in
\* updateBufferTracking, and releases the mutex when it returns.
\* ----------------------------------------------------------------------

\* where a thread touches the pool list, the tracking map or the counters
InCall == {"body", "load", "store"}

\* the counters updateBufferTracking(a, allocate) writes when it read c
tracked(c, a, allocate) ==
    IF allocate
    THEN [total |-> (c.total + a.size) % UIntMod,
          buffers |-> (c.buffers + 1) % UIntMod,
          allocs |-> (c.allocs + 1) % UIntMod]
    ELSE [total |-> (c.total + UIntMod - (a.size % UIntMod)) % UIntMod,
          buffers |-> (c.buffers + UIntMod - 1) % UIntMod,
          allocs |-> (c.allocs + UIntMod - 1) % UIntMod]

\* calls the threads have made, finished or under way
RECURSIVE CallsOf(_)
CallsOf(S) ==
    IF S = {} THEN 0
    ELSE LET t == CHOOSE x \in S : TRUE
         IN  allocThreads[t].calls
               + (IF allocThreads[t].pc = "idle" THEN 0 ELSE 1)
               + CallsOf(S \ {t})

CallsMade == CallsOf(Threads)

\* the thread back in its caller: the lock_guard releases the mutex
returned(t, r) ==
    /\ bufferMutex' = NULL
    /\ allocThreads' = [allocThreads EXCEPT ![t].pc = "idle", ![t].ret = r,
                                            ![t].calls = @ + 1]

\* thread t calls op; a is the allocation handed in, or holds the type and
\* size asked for.  The early returns are taken before the mutex.
ThreadCall(t, op, a) ==
    /\ UNCHANGED <<syncVars, loopVars, shaderVars, cmdVars, pipeVars>>
    /\ allocThreads[t].pc = "idle"
    /\ CallsMade < MaxCalls
    /\ op \in {"deallocateBuffer", "deallocateFromPool"} => a \in issued
    /\ issued' = issued \ {a}
    /\ allocThreads' =
          IF \/ ~allocInitialized
             \/ (op \in {"deallocateBuffer", "deallocateFromPool"} /\ a.buffer = NULL)
          THEN [allocThreads EXCEPT ![t].calls = @ + 1, ![t].op = op,
                                   ![t].arg = a, ![t].ret = NullAllocation]
          ELSE [allocThreads EXCEPT ![t].pc = "lock", ![t].op = op, ![t].arg = a]
    /\ UNCHANGED <<allocInitialized, memoryManager, alignments, allocations,
                   bufferMap, bufferPools, totalAllocatedMemory, bufferCount,
                   allocationCount, nextHandle, nativeBuffers, nativeMemory,
                   poolHandedOut, allocLast, copies, bufferDestroys,
                   memoryFrees, bufferMutex>>

\* a lock that does not wait for the holder
ThreadLock_NoExclusion(t) ==
    /\ UNCHANGED <<syncVars, loopVars, shaderVars, cmdVars, pipeVars>>
    /\ allocThreads[t].pc = "lock"
    /\ bufferMutex' = t
    /\ allocThreads' = [allocThreads EXCEPT ![t].pc = "body"]
    /\ UNCHANGED <<allocInitialized, memoryManager, alignments, allocations,
                   bufferMap, bufferPools, totalAllocatedMemory, bufferCount,
                   allocationCount, nextHandle, nativeBuffers, nativeMemory,
                   issued, poolHandedOut, allocLast, copies, bufferDestroys,
                   memoryFrees>>

\* std::lock_guard<std::mutex> lock(m_bufferMutex): blocks while it is held
ThreadLock(t) ==
    /\ UNCHANGED <<syncVars, loopVars, shaderVars, cmdVars, pipeVars>>
    /\ allocThreads[t].pc = "lock"
    /\ bufferMutex = NULL
    /\ bufferMutex' = t
    /\ allocThreads' = [allocThreads EXCEPT ![t].pc = "body"]
    /\ UNCHANGED <<allocInitialized, memoryManager, alignments, allocations,
                   bufferMap, bufferPools, totalAllocatedMemory, bufferCount,
                   allocationCount, nextHandle, nativeBuffers, nativeMemory,
                   issued, poolHandedOut, allocLast, copies, bufferDestroys,
                   memoryFrees>>

\* the thread goes on to updateBufferTracking(a, ...)
tracking(t, a) ==
    /\ allocThreads' = [allocThreads EXCEPT ![t].pc = "load", ![t].arg = a]
    /\ UNCHANGED bufferMutex

\* allocateBuffer: createBufferInternal up to the tracking structures
ThreadAllocateBuffer(t, bufOk, memOk, bindOk) ==
    /\ UNCHANGED <<syncVars, loopVars, shaderVars, cmdVars, pipeVars>>
    /\ allocThreads[t].pc = "body"
    /\ allocThreads[t].op = "allocateBuffer"
    /\ nextHandle <= MaxBuffers
    /\ LET a == createdAllocation(allocThreads[t].arg.type,
                                  allocThreads[t].arg.size, bufOk, memOk, bindOk)
       IN  /\ IF a.buffer # NULL
              THEN /\ allocations' = Append(allocations, a)
                   /\ bufferMap' = {e \in bufferMap : e.buffer # a.buffer} \cup {a}
                   /\ nativeBuffers' = nativeBuffers \cup {a.buffer}
                   /\ nativeMemory' = nativeMemory \cup ({a.memory} \ {NULL})
                   /\ issued' = issued \cup {a}
                   /\ tracking(t, a)
                   /\ UNCHANGED <<bufferDestroys, memoryFrees>>
              ELSE /\ returned(t, NullAllocation)
                   /\ bufferDestroys' =
                         IF bufOk THEN destroyedOnce(bufferDestroys, {nextHandle})
                         ELSE bufferDestroys
                   /\ memoryFrees' =
                         IF bufOk /\ memOk /\ ~bindOk
                         THEN destroyedOnce(memoryFrees, {nextHandle})
                         ELSE memoryFrees
                   /\ UNCHANGED <<allocations, bufferMap, nativeBuffers,
                                  nativeMemory, issued>>
           /\ nextHandle' = IF bufOk THEN nextHandle + 1 ELSE nextHandle
    /\ UNCHANGED <<allocInitialized, memoryManager, alignments, bufferPools,
                   totalAllocatedMemory, bufferCount, allocationCount,
                   poolHandedOut, allocLast, copies>>

\* deallocateBuffer: destroyBufferInternal
ThreadDeallocateBuffer(t) ==
    /\ UNCHANGED <<syncVars, loopVars, shaderVars, cmdVars, pipeVars>>
    /\ allocThreads[t].pc = "body"
    /\ allocThreads[t].op = "deallocateBuffer"
    /\ LET a == allocThreads[t].arg
       IN  /\ nativeBuffers' = nativeBuffers \ {a.buffer}
           /\ nativeMemory' = nativeMemory \ {a.memory}
           /\ bufferDestroys' = destroyedOnce(bufferDestroys, {a.buffer})
           /\ memoryFrees' = destroyedOnce(memoryFrees, {a.memory} \ {NULL})
           /\ tracking(t, a)
    /\ UNCHANGED <<allocInitialized, memoryManager, alignments, allocations,
                   bufferMap, bufferPools, totalAllocatedMemory, bufferCount,
                   allocationCount, nextHandle, issued, poolHandedOut,
                   allocLast, copies>>

\* allocateFromPool: the scan of the pools and the bump of usedSize
ThreadAllocateFromPool(t) ==
    /\ UNCHANGED <<syncVars, loopVars, shaderVars, cmdVars, pipeVars>>
    /\ allocThreads[t].pc = "body"
    /\ allocThreads[t].op = "allocateFromPool"
    /\ LET type == allocThreads[t].arg.type
           size == allocThreads[t].arg.size
           i == FirstFit(type, size)
           a == IF i = 0 THEN NullAllocation
                ELSE [buffer |-> bufferPools[i].buffer, memory |-> NULL,
                      size |-> size, offset |-> bufferPools[i].usedSize,
                      type |-> type, mappedPtr |-> NULL,
                      persistentMapping |-> FALSE]
       IN  IF i # 0
           THEN /\ bufferPools' = [bufferPools EXCEPT
                       ![i].usedSize = bufferPools[i].usedSize + size,
                       ![i].allocations = Append(bufferPools[i].allocations, a)]
                /\ issued' = issued \cup {a}
                /\ poolHandedOut' = [poolHandedOut EXCEPT
                       ![a.buffer] = poolHandedOut[a.buffer] + size]
                /\ tracking(t, a)
           ELSE /\ returned(t, NullAllocation)
                /\ UNCHANGED <<bufferPools, issued, poolHandedOut>>
    /\ UNCHANGED <<allocInitialized, memoryManager, alignments, allocations,
                   bufferMap, totalAllocatedMemory, bufferCount,
                   allocationCount, nextHandle, nativeBuffers, nativeMemory,
                   allocLast, copies, bufferDestroys, memoryFrees>>

\* deallocateFromPool: the scan of the pools and the std::remove_if
ThreadDeallocateFromPool(t) ==
    /\ UNCHANGED <<syncVars, loopVars, shaderVars, cmdVars, pipeVars>>
    /\ allocThreads[t].pc = "body"
    /\ allocThreads[t].op = "deallocateFromPool"
    /\ LET a == allocThreads[t].arg
           owners == {i \in DOMAIN bufferPools : bufferPools[i].buffer = a.buffer}
       IN  IF owners = {}
           THEN /\ returned(t, NullAllocation)
                /\ UNCHANGED bufferPools
           ELSE LET i == CHOOSE k \in owners : \A j \in owners : k <= j
                IN  /\ bufferPools' = [bufferPools EXCEPT
                           ![i].allocations = RemoveMatching(bufferPools[i].allocations, a)]
                    /\ tracking(t, a)
    /\ UNCHANGED <<allocInitialized, memoryManager, alignments, allocations,
                   bufferMap, totalAllocatedMemory, bufferCount,
                   allocationCount, nextHandle, nativeBuffers, nativeMemory,
                   issued, poolHandedOut, allocLast, copies, bufferDestroys,
                   memoryFrees>>

\* updateBufferTracking: the counters are read ...
ThreadLoad(t) ==
    /\ UNCHANGED <<syncVars, loopVars, shaderVars, cmdVars, pipeVars>>
    /\ allocThreads[t].pc = "load"
    /\ allocThreads' = [allocThreads EXCEPT ![t].pc = "store",
                                            ![t].loaded = Counters]
    /\ UNCHANGED <<allocInitialized, memoryManager, alignments, allocations,
                   bufferMap, bufferPools, totalAllocatedMemory, bufferCount,
                   allocationCount, nextHandle, nativeBuffers, nativeMemory,
                   issued, poolHandedOut, allocLast, copies, bufferDestroys,
                   memoryFrees, bufferMutex>>

\* ... and written back, and the call returns
ThreadStore(t) ==
    /\ UNCHANGED <<syncVars, loopVars, shaderVars, cmdVars, pipeVars>>
    /\ allocThreads[t].pc = "store"
    /\ LET a == allocThreads[t].arg
           allocate == allocThreads[t].op \in {"allocateBuffer", "allocateFromPool"}
           c == tracked(allocThreads[t].loaded, a, allocate)
       IN  /\ totalAllocatedMemory' = c.total
           /\ bufferCount' = c.buffers
           /\ allocationCount' = c.allocs
           /\ bufferMutex' = NULL
           /\ allocThreads' =
                 [allocThreads EXCEPT
                    ![t].pc = "idle", ![t].calls = @ + 1,
                    ![t].ret = IF allocate THEN a ELSE NullAllocation,
                    ![t].applied = tracked(allocThreads[t].applied, a, allocate)]
    /\ UNCHANGED <<allocInitialized, memoryManager, alignments, allocations,
                   bufferMap, bufferPools, nextHandle, nativeBuffers,
                   nativeMemory, issued, poolHandedOut, allocLast, copies,
                   bufferDestroys, memoryFrees>>

\* what the threads ask for
Request(type, size) == [NullAllocation EXCEPT !.type = type, !.size = size]

\* no thread is inside a call
Quiescent == \A t \in Threads : allocThreads[t].pc = "idle"

\* an allocator that is initialized and given a pool, then called from
\* several threads at once
AllocThreadsNext ==
    \/ CallsMade = 0 /\ AllocInitialize(TypicalLimits)
    \/ CallsMade = 0 /\ bufferPools = << >> /\ CreateBufferPool("Vertex", MaxSize + 1, TRUE)
    \/ \E t \in Threads, op \in {"allocateBuffer", "allocateFromPool"} :
          ThreadCall(t, op, Request("Vertex", 1))
    \/ \E t \in Threads, op \in {"deallocateBuffer", "deallocateFromPool"},
          a \in issued : ThreadCall(t, op, a)
    \/ \E t \in Threads : ThreadLock(t)
    \/ \E t \in Threads : ThreadAllocateBuffer(t, TRUE, TRUE, TRUE)
    \/ \E t \in Threads : ThreadDeallocateBuffer(t)
    \/ \E t \in Threads : ThreadAllocateFromPool(t)
    \/ \E t \in Threads : ThreadDeallocateFromPool(t)
    \/ \E t \in Threads : ThreadLoad(t)
    \/ \E t \in Threads : ThreadStore(t)

AllocNext ==
    \/ AllocInitialize(TypicalLimits)
    \/ \E type \in RequestTypes, size \in Sizes, o \in NativeOutcomes :
          AllocateBuffer(type, size, o.bufOk, o.typeOk, o.memOk, o.bindOk)
    \/ \E a \in issued : DeallocateBuffer(a)
    \/ \E type \in RequestTypes, size \in Sizes, nativeOk \in BOOLEAN :
          CreateBufferPool(type, size + 1, nativeOk)
    \/ \E type \in RequestTypes, size \in Sizes : AllocateFromPool(type, size)
    \/ \E a \in issued : DeallocateFromPool(a)
    \/ CleanupBufferPools
    \/ AllocShutdown

\* the allocator used for standalone buffers only
AllocBufferNext ==
    \/ AllocInitialize(TypicalLimits)
    \/ \E type \in RequestTypes, size \in Sizes, o \in NativeOutcomes :
          AllocateBuffer(type, size, o.bufOk, o.typeOk, o.memOk, o.bindOk)
    \/ \E a \in issued : DeallocateBuffer(a)
    \/ AllocShutdown

\* the allocator used for buffer pools only
AllocPoolNext ==
    \/ AllocInitialize(TypicalLimits)
    \/ \E type \in RequestTypes, size \in Sizes, nativeOk \in BOOLEAN :
          CreateBufferPool(type, size + 1, nativeOk)
    \/ \E type \in RequestTypes, size \in Sizes : AllocateFromPool(type, size)
    \/ \E a \in issued : DeallocateFromPool(a)
    \/ CleanupBufferPools
    \/ AllocShutdown

\* the allocator used through createUniformBuffer and createStagingBuffer
AllocMappedNext ==
    \/ AllocInitialize(TypicalLimits)
    \/ \E size \in Sizes, o \in NativeOutcomes, ptr \in MapResults :
          CreateUniformBuffer(size, o.bufOk, o.typeOk, o.memOk, o.bindOk, ptr)
    \/ \E size \in Sizes, o \in NativeOutcomes, ptr \in MapResults :
          CreateStagingBuffer(size, o.bufOk, o.typeOk, o.memOk, o.bindOk, ptr)
    \/ \E a \in issued \cup {NullAllocation}, ptr \in MapResults : MapBuffer(a, ptr)
    \/ \E a \in issued \cup {NullAllocation} : UnmapBuffer(a)
    \/ \E a \in issued : DeallocateBuffer(a)
    \/ AllocShutdown

\* the allocator initialized on devices of every kind and asked for its
\* alignments
AllocAlignNext ==
    \/ \E limits \in DeviceLimits : AllocInitialize(limits)
    \/ \E type \in BufferTypes : GetAlignmentRequirement(type)
    \/ AllocShutdown

\* the allocator used by callers that copy the allocations they hold and
\* hand the copies back as well
AllocCopyNext ==
    \/ AllocInitialize(TypicalLimits)
    \/ \E o \in NativeOutcomes :
          AllocateBuffer("Vertex", 1, o.bufOk, o.typeOk, o.memOk, o.bindOk)
    \/ \E a \in issued : CopyAllocation(a)
    \/ \E a \in issued \cup copies : DeallocateBuffer(a)
    \/ \E nativeOk \in BOOLEAN : CreateBufferPool("Vertex", MaxSize, nativeOk)
    \/ AllocateFromPool("Vertex", 1)
    \/ \E a \in issued \cup copies : DeallocateFromPool(a)
    \/ AllocShutdown

\* the allocator used for standalone buffers that the callers map and unmap
AllocMappingNext ==
    \/ AllocInitialize(TypicalLimits)
    \/ \E o \in NativeOutcomes :
          AllocateBuffer("Vertex", 1, o.bufOk, o.typeOk, o.memOk, o.bindOk)
    \/ \E a \in issued \cup {NullAllocation}, ptr \in MapResults : MapBuffer(a, ptr)
    \/ \E a \in issued \cup {NullAllocation} : UnmapBuffer(a)
    \/ \E a \in issued : DeallocateBuffer(a)
    \/ AllocShutdown

\* ======================================================================
\* ShaderSystem
\* ======================================================================

ShaderNames == {"triangle", "pbr"}

\* what the second lock of m_shaderMutex by its owner does: std::mutex is not
\* recursive, so the behaviour is undefined: the thread blocks for ever, or
\* lock() throws std::system_error, or (mutex calls compiled to nothing) it
\* goes on
RelockOutcomes == {"deadlock", "throw", "proceed"}

\* constructor: member initialisers of the class
ShaderInit ==
    /\ shaderInitialized = FALSE
    /\ shaders = << >>
    /\ shaderModules = {}
    /\ nextModule = 1
    /\ shaderMutex = "free"
    /\ hotReloadEnabled = FALSE
    /\ fileWatcher = FALSE
    /\ sourceTimes = [n \in ShaderNames |-> [v |-> 0, f |-> 0]]
    /\ shaderLast = [op |-> "none", name |-> "triangle", reload |-> FALSE,
                     native |-> FALSE, files |-> FALSE,
                      vMod |-> FALSE, fMod |-> FALSE, result |-> "void", old |-> {}]

\* the module handles an entry of m_shaders holds
EntryModules(e) == {e.vertexShader, e.fragmentShader} \ {NULL}

\* the map without one key
WithoutKey(f, k) == [x \in (DOMAIN f) \ {k} |-> f[x]]

\* the map with key k set to v (m_shaders[name] = shaderData)
WithKey(f, k, v) == [x \in (DOMAIN f) \cup {k} |-> IF x = k THEN v ELSE f[x]]

\* initialize(device)
ShaderInitialize ==
    /\ UNCHANGED <<syncVars, loopVars, allocVars, cmdVars, pipeVars, sourceTimes>>
    /\ hotReloadEnabled' = (shaderInitialized /\ hotReloadEnabled)
    /\ UNCHANGED fileWatcher
    /\ shaderMutex = "free"
    /\ shaderInitialized' = TRUE
    /\ shaderLast' = [op |-> "initialize", name |-> "triangle", reload |-> FALSE,
                      native |-> FALSE, files |-> FALSE,
                      vMod |-> FALSE, fMod |-> FALSE, result |-> "true", old |-> {}]
    /\ UNCHANGED <<shaders, shaderModules, nextModule, shaderMutex>>

\* body of unloadShader(name) once it holds the lock: the map and the live
\* module handles afterwards
unloadedShaders(name) ==
    IF name \in DOMAIN shaders THEN WithoutKey(shaders, name) ELSE shaders

unloadedModules(name) ==
    IF name \in DOMAIN shaders
    THEN shaderModules \ EntryModules(shaders[name])
    ELSE shaderModules

\* unloadShader(name) called by the application
UnloadShader(name) ==
    /\ UNCHANGED <<syncVars, loopVars, allocVars, cmdVars, pipeVars, sourceTimes>>
    /\ UNCHANGED <<hotReloadEnabled, fileWatcher>>
    /\ shaderMutex = "free"
    /\ IF ~shaderInitialized
       THEN UNCHANGED <<shaders, shaderModules>>
       ELSE /\ shaders' = unloadedShaders(name)
            /\ shaderModules' = unloadedModules(name)
    /\ shaderLast' = [op |-> "unloadShader", name |-> name, reload |-> FALSE,
                      native |-> FALSE, files |-> FALSE,
                      vMod |-> FALSE, fMod |-> FALSE, result |-> "void", old |-> {}]
    /\ UNCHANGED <<shaderInitialized, nextModule, shaderMutex>>

\* std::filesystem::last_write_time(path).time_since_epoch().count(): a time,
\* or Thrown when the call throws (no such file)
Thrown == 0 - 1
FileTimes == 0 .. MaxFileTime
FileTimeOutcomes == FileTimes \cup {Thrown}

\* lastModifiedTime of the entry a load stores: loadShader reads the write
\* time of the vertex file when hot reload is enabled (0 when that throws);
\* otherwise the member initialiser 0 stays
loadedFileTime(op, mtime) ==
    IF op = "loadShader" /\ hotReloadEnabled /\ mtime # Thrown THEN mtime ELSE 0

\* the shared body without the vkDestroyShaderModule of the vertex module
\* when the fragment module is not created
loadInto_LeaksVertex(op, name, vFile, fFile, vMod, fMod, relock, mtime) ==
    /\ UNCHANGED <<syncVars, loopVars, allocVars, cmdVars, pipeVars, sourceTimes>>
    /\ UNCHANGED <<hotReloadEnabled, fileWatcher>>
    /\ shaderMutex = "free"
    /\ nextModule + 1 <= MaxModules
    /\ LET exists == name \in DOMAIN shaders
           log(res) == [op |-> op, name |-> name,
                        reload |-> shaderInitialized /\ exists,
                        native |-> vFile /\ fFile /\ vMod /\ fMod,
                        files |-> vFile /\ fFile, vMod |-> vMod, fMod |-> fMod,
                        result |-> res,
                        old |-> IF exists THEN EntryModules(shaders[name]) ELSE {}]
           shaders1 == IF exists THEN unloadedShaders(name) ELSE shaders
           modules1 == IF exists THEN unloadedModules(name) ELSE shaderModules
       IN  IF ~shaderInitialized
           THEN /\ shaderLast' = log("false")
                /\ UNCHANGED <<shaders, shaderModules, nextModule, shaderMutex>>
           ELSE IF exists /\ relock = "deadlock"
           THEN /\ shaderLast' = log("blocked")
                /\ shaderMutex' = "deadlocked"
                /\ UNCHANGED <<shaders, shaderModules, nextModule>>
           ELSE IF exists /\ relock = "throw"
           THEN /\ shaderLast' = log("threw")
                /\ UNCHANGED <<shaders, shaderModules, nextModule, shaderMutex>>
           ELSE IF ~vFile \/ ~fFile \/ ~vMod
           THEN /\ shaderLast' = log("false")
                /\ shaders' = shaders1
                /\ shaderModules' = modules1
                /\ UNCHANGED <<nextModule, shaderMutex>>
           ELSE IF ~fMod
           THEN /\ shaderLast' = log("false")
                /\ shaders' = shaders1
                /\ shaderModules' = modules1 \cup {nextModule}
                /\ nextModule' = nextModule + 1
                /\ UNCHANGED shaderMutex
           ELSE /\ shaderLast' = log("true")
                /\ shaders' = WithKey(shaders1, name,
                       [vertexShader |-> nextModule,
                        fragmentShader |-> nextModule + 1,
                        vertexPath |-> IF op = "loadShader" THEN "vertex" ELSE "",
                        fragmentPath |-> IF op = "loadShader" THEN "fragment" ELSE "",
                        loaded |-> TRUE, needsReload |-> FALSE,
                        lastModifiedTime |-> loadedFileTime(op, mtime)])
                /\ shaderModules' = modules1 \cup {nextModule, nextModule + 1}
                /\ nextModule' = nextModule + 2
                /\ UNCHANGED shaderMutex
    /\ UNCHANGED shaderInitialized

\* the body loadShader and loadShaderFromSPIRV share.  vFile, fFile: the
\* code of the stage is read; vMod, fMod: createShaderModule returns a handle;
\* relock: what the locking inside unloadShader does when the name already
\* exists; mtime: what last_write_time gives for the vertex file
loadInto(op, name, vFile, fFile, vMod, fMod, relock, mtime) ==
    /\ UNCHANGED <<syncVars, loopVars, allocVars, cmdVars, pipeVars, sourceTimes>>
    /\ UNCHANGED <<hotReloadEnabled, fileWatcher>>
    /\ shaderMutex = "free"
    /\ nextModule + 1 <= MaxModules
    /\ LET exists == name \in DOMAIN shaders
           log(res) == [op |-> op, name |-> name,
                        reload |-> shaderInitialized /\ exists,
                        native |-> vFile /\ fFile /\ vMod /\ fMod,
                        files |-> vFile /\ fFile, vMod |-> vMod, fMod |-> fMod,
                        result |-> res,
                        old |-> IF exists THEN EntryModules(shaders[name]) ELSE {}]
           shaders1 == IF exists THEN unloadedShaders(name) ELSE shaders
           modules1 == IF exists THEN unloadedModules(name) ELSE shaderModules
       IN  IF ~shaderInitialized
           THEN /\ shaderLast' = log("false")
                /\ UNCHANGED <<shaders, shaderModules, nextModule, shaderMutex>>
           ELSE IF exists /\ relock = "deadlock"
           THEN /\ shaderLast' = log("blocked")
                /\ shaderMutex' = "deadlocked"
                /\ UNCHANGED <<shaders, shaderModules, nextModule>>
           ELSE IF exists /\ relock = "throw"
           THEN /\ shaderLast' = log("threw")
                /\ UNCHANGED <<shaders, shaderModules, nextModule, shaderMutex>>
           ELSE IF ~vFile \/ ~fFile \/ ~vMod
           THEN /\ shaderLast' = log("false")
                /\ shaders' = shaders1
                /\ shaderModules' = modules1
                /\ UNCHANGED <<nextModule, shaderMutex>>
           ELSE IF ~fMod
           THEN \* the vertex module is created and destroyed again
                /\ shaderLast' = log("false")
                /\ shaders' = shaders1
                /\ shaderModules' = modules1
                /\ nextModule' = nextModule + 1
                /\ UNCHANGED shaderMutex
           ELSE /\ shaderLast' = log("true")
                /\ shaders' = WithKey(shaders1, name,
                       [vertexShader |-> nextModule,
                        fragmentShader |-> nextModule + 1,
                        vertexPath |-> IF op = "loadShader" THEN "vertex" ELSE "",
                        fragmentPath |-> IF op = "loadShader" THEN "fragment" ELSE "",
                        loaded |-> TRUE, needsReload |-> FALSE,
                        lastModifiedTime |-> loadedFileTime(op, mtime)])
                /\ shaderModules' = modules1 \cup {nextModule, nextModule + 1}
                /\ nextModule' = nextModule + 2
                /\ UNCHANGED shaderMutex
    /\ UNCHANGED shaderInitialized

\* loadShader(name, vertexPath, fragmentPath): vFile, fFile say whether
\* loadShaderFile reads the file
LoadShader(name, vFile, fFile, vMod, fMod, relock, mtime) ==
    loadInto("loadShader", name, vFile, fFile, vMod, fMod, relock, mtime)

\* loadShaderFromSPIRV(name, vertexCode, fragmentCode): the code is passed in
LoadShaderFromSPIRV(name, vMod, fMod, relock) ==
    loadInto("loadShaderFromSPIRV", name, TRUE, TRUE, vMod, fMod, relock, 0)

\* shutdown(): stopFileWatcher, then cleanupShaders destroys every module
\* and clears the map
ShaderShutdown ==
    /\ UNCHANGED <<syncVars, loopVars, allocVars, cmdVars, pipeVars, sourceTimes>>
    /\ UNCHANGED hotReloadEnabled
    /\ fileWatcher' = FALSE
    /\ shaderMutex = "free"
    /\ shaderInitialized
    /\ shaderInitialized' = FALSE
    /\ shaders' = << >>
    /\ shaderModules' = shaderModules \
           UNION {EntryModules(shaders[n]) : n \in DOMAIN shaders}
    /\ shaderLast' = [op |-> "shutdown", name |-> "triangle", reload |-> FALSE,
                      native |-> FALSE, files |-> FALSE,
                      vMod |-> FALSE, fMod |-> FALSE, result |-> "void", old |-> {}]
    /\ UNCHANGED <<nextModule, shaderMutex>>

\* the call record of a call that takes no shader name
ShaderVoidCall(op) ==
    [op |-> op, name |-> "triangle", reload |-> FALSE, native |-> FALSE,
     files |-> FALSE, vMod |-> FALSE, fMod |-> FALSE, result |-> "void",
     old |-> {}]

\* enableHotReload(enable): startFileWatcher / stopFileWatcher
EnableHotReload(enable) ==
    /\ UNCHANGED <<syncVars, loopVars, allocVars, cmdVars, pipeVars, sourceTimes>>
    /\ hotReloadEnabled' = enable
    /\ fileWatcher' = enable
    /\ shaderLast' = ShaderVoidCall("enableHotReload")
    /\ UNCHANGED <<shaderInitialized, shaders, shaderModules, nextModule,
                   shaderMutex>>

\* the loop body storing its local flag whatever it is
checkedEntry_StoresFlag(e, v, f) ==
    LET vNewer == e.vertexPath # "" /\ v # Thrown /\ v > e.lastModifiedTime
        time1 == IF vNewer THEN v ELSE e.lastModifiedTime
        fNewer == ~vNewer /\ e.fragmentPath # "" /\ f # Thrown /\ f > time1
    IN  [e EXCEPT !.lastModifiedTime = IF fNewer THEN f ELSE time1,
                  !.needsReload = vNewer \/ fNewer]

\* one entry of m_shaders after the loop body of checkForShaderUpdates, v and
\* f being what last_write_time gives for its vertex and fragment file
checkedEntry(e, v, f) ==
    LET vNewer == e.vertexPath # "" /\ v # Thrown /\ v > e.lastModifiedTime
        time1 == IF vNewer THEN v ELSE e.lastModifiedTime
        fNewer == ~vNewer /\ e.fragmentPath # "" /\ f # Thrown /\ f > time1
    IN  [e EXCEPT !.lastModifiedTime = IF fNewer THEN f ELSE time1,
                  !.needsReload = e.needsReload \/ vNewer \/ fNewer]

\* checkForShaderUpdates(), times giving the write times of the files of
\* every shader name
CheckForShaderUpdates(times) ==
    /\ UNCHANGED <<syncVars, loopVars, allocVars, cmdVars, pipeVars, sourceTimes>>
    /\ shaderMutex = "free"
    /\ shaders' = IF shaderInitialized /\ hotReloadEnabled
                  THEN [n \in DOMAIN shaders |->
                          checkedEntry(shaders[n], times[n].v, times[n].f)]
                  ELSE shaders
    /\ shaderLast' = ShaderVoidCall("checkForShaderUpdates")
    /\ UNCHANGED <<shaderInitialized, shaderModules, nextModule, shaderMutex,
                   hotReloadEnabled, fileWatcher>>

ShaderNext ==
    \/ ShaderInitialize
    \/ \E name \in ShaderNames, vFile, fFile, vMod, fMod \in BOOLEAN,
          relock \in RelockOutcomes, mtime \in FileTimeOutcomes :
          LoadShader(name, vFile, fFile, vMod, fMod, relock, mtime)
    \/ \E name \in ShaderNames, vMod, fMod \in BOOLEAN, relock \in RelockOutcomes :
          LoadShaderFromSPIRV(name, vMod, fMod, relock)
    \/ \E name \in ShaderNames : UnloadShader(name)
    \/ ShaderShutdown

\* the shader system with hot reload: shaders loaded from files and from
\* SPIR-V, the files changing on disk
ShaderReloadNext ==
    \/ ShaderInitialize
    \/ \E enable \in BOOLEAN : EnableHotReload(enable)
    \/ \E name \in ShaderNames, mtime \in FileTimeOutcomes :
          LoadShader(name, TRUE, TRUE, TRUE, TRUE, "proceed", mtime)
    \/ \E name \in ShaderNames :
          LoadShaderFromSPIRV(name, TRUE, TRUE, "proceed")
    \/ \E times \in [ShaderNames -> [v : FileTimeOutcomes, f : FileTimeOutcomes]] :
          CheckForShaderUpdates(times)
    \/ \E name \in ShaderNames : UnloadShader(name)
    \/ ShaderShutdown

\* the vertex or the fragment file of a shader is written: its write time
\* moves on to t
WriteSourceFile(name, stage, t) ==
    /\ UNCHANGED <<syncVars, loopVars, allocVars, cmdVars, pipeVars>>
    /\ t > sourceTimes[name][stage]
    /\ sourceTimes' = [sourceTimes EXCEPT ![name][stage] = t]
    /\ UNCHANGED <<shaderInitialized, shaders, shaderModules, nextModule,
                   shaderMutex, hotReloadEnabled, fileWatcher, shaderLast>>

\* the shader system with hot reload and the files it reads: the files of a
\* shader are written only while the shader is not loaded, so no file
\* changes between loadShader and the checks that follow it
ShaderFilesNext ==
    \/ ShaderInitialize
    \/ \E enable \in BOOLEAN : EnableHotReload(enable)
    \/ \E name \in ShaderNames \ DOMAIN shaders, stage \in {"v", "f"},
          t \in FileTimes : WriteSourceFile(name, stage, t)
    \/ \E name \in ShaderNames \ DOMAIN shaders :
          LoadShader(name, TRUE, TRUE, TRUE, TRUE, "proceed", sourceTimes[name].v)
    \/ CheckForShaderUpdates(sourceTimes)
    \/ \E name \in ShaderNames : UnloadShader(name)
    \/ ShaderShutdown

\* ======================================================================
\* CommandBuffer
\* ======================================================================

\* the record of one call: the operation, whether it threw, the result of
\* the native call it made, and the layouts passed to transitionImageLayout
CmdCall(op, threw, nativeOk) ==
    [op |-> op, threw |-> threw, nativeOk |-> nativeOk,
     oldLayout |-> "none", newLayout |-> "none"]

\* constructor
CmdInit ==
    /\ cmdHandle = NULL
    /\ isRecording = FALSE
    /\ nativeCount = 0
    /\ lastNative = "none"
    /\ cmdLast = CmdCall("none", FALSE, TRUE)

\* one native call on m_commandBuffer
issueNative(native) ==
    /\ nativeCount' = nativeCount + 1
    /\ lastNative' = native

\* the operations below are called on command buffers handed out by
\* CommandBufferManager::allocateCommandBuffer, which are created
CmdCallable == cmdHandle # NULL /\ nativeCount < MaxCmds

\* create()
CmdCreate(nativeOk) ==
    /\ UNCHANGED <<syncVars, loopVars, allocVars, shaderVars, pipeVars>>
    /\ cmdHandle' = IF cmdHandle = NULL /\ nativeOk THEN 1 ELSE cmdHandle
    /\ cmdLast' = CmdCall("create", FALSE, nativeOk)
    /\ UNCHANGED <<isRecording, nativeCount, lastNative>>

\* destroy()
CmdDestroy ==
    /\ UNCHANGED <<syncVars, loopVars, allocVars, shaderVars, pipeVars>>
    /\ IF cmdHandle # NULL
       THEN /\ cmdHandle' = NULL
            /\ isRecording' = FALSE
            /\ nativeCount' = 0
            /\ lastNative' = "none"
       ELSE UNCHANGED <<cmdHandle, isRecording, nativeCount, lastNative>>
    /\ cmdLast' = CmdCall("destroy", FALSE, TRUE)

\* beginRecording without the already-recording test
beginRecording_NoGuard(nativeOk) ==
    /\ UNCHANGED <<syncVars, loopVars, allocVars, shaderVars, pipeVars>>
    /\ CmdCallable
    /\ cmdLast' = CmdCall("beginRecording", FALSE, nativeOk)
    /\ issueNative("vkBeginCommandBuffer")
    /\ isRecording' = nativeOk
    /\ UNCHANGED cmdHandle

\* beginRecording(flags)
beginRecording(nativeOk) ==
    /\ UNCHANGED <<syncVars, loopVars, allocVars, shaderVars, pipeVars>>
    /\ CmdCallable
    /\ cmdLast' = CmdCall("beginRecording", FALSE, nativeOk)
    /\ IF isRecording
       THEN UNCHANGED <<isRecording, nativeCount, lastNative>>
       ELSE /\ issueNative("vkBeginCommandBuffer")
            /\ isRecording' = nativeOk
    /\ UNCHANGED cmdHandle

\* endRecording()
endRecording(nativeOk) ==
    /\ UNCHANGED <<syncVars, loopVars, allocVars, shaderVars, pipeVars>>
    /\ CmdCallable
    /\ cmdLast' = CmdCall("endRecording", FALSE, nativeOk)
    /\ IF ~isRecording
       THEN UNCHANGED <<isRecording, nativeCount, lastNative>>
       ELSE /\ issueNative("vkEndCommandBuffer")
            /\ isRecording' = ~nativeOk
    /\ UNCHANGED cmdHandle

\* reset without the recording test
reset_NoGuard ==
    /\ UNCHANGED <<syncVars, loopVars, allocVars, shaderVars, pipeVars>>
    /\ CmdCallable
    /\ cmdLast' = CmdCall("reset", FALSE, TRUE)
    /\ issueNative("vkResetCommandBuffer")
    /\ UNCHANGED <<cmdHandle, isRecording>>

\* reset()
reset ==
    /\ UNCHANGED <<syncVars, loopVars, allocVars, shaderVars, pipeVars>>
    /\ CmdCallable
    /\ cmdLast' = CmdCall("reset", FALSE, TRUE)
    /\ IF isRecording
       THEN UNCHANGED <<nativeCount, lastNative>>
       ELSE issueNative("vkResetCommandBuffer")
    /\ UNCHANGED <<cmdHandle, isRecording>>

\* the shape every recording operation has:
\*   if (!m_isRecording) { log; return; }  vkCmdX(m_commandBuffer, ...);
recordCommand(op, native) ==
    /\ UNCHANGED <<syncVars, loopVars, allocVars, shaderVars, pipeVars>>
    /\ CmdCallable
    /\ cmdLast' = CmdCall(op, FALSE, TRUE)
    /\ IF ~isRecording
       THEN UNCHANGED <<nativeCount, lastNative>>
       ELSE issueNative(native)
    /\ UNCHANGED <<cmdHandle, isRecording>>

beginRenderPass == recordCommand("beginRenderPass", "vkCmdBeginRenderPass")

endRenderPass == recordCommand("endRenderPass", "vkCmdEndRenderPass")

bindPipeline == recordCommand("bindPipeline", "vkCmdBindPipeline")

bindVertexBuffers == recordCommand("bindVertexBuffers", "vkCmdBindVertexBuffers")

bindIndexBuffer == recordCommand("bindIndexBuffer", "vkCmdBindIndexBuffer")

bindDescriptorSets == recordCommand("bindDescriptorSets", "vkCmdBindDescriptorSets")

\* draw without the recording test
draw_Unguarded ==
    /\ UNCHANGED <<syncVars, loopVars, allocVars, shaderVars, pipeVars>>
    /\ CmdCallable
    /\ cmdLast' = CmdCall("draw", FALSE, TRUE)
    /\ issueNative("vkCmdDraw")
    /\ UNCHANGED <<cmdHandle, isRecording>>

draw == recordCommand("draw", "vkCmdDraw")

drawIndexed == recordCommand("drawIndexed", "vkCmdDrawIndexed")

setViewport == recordCommand("setViewport", "vkCmdSetViewport")

setScissor == recordCommand("setScissor", "vkCmdSetScissor")

setLineWidth == recordCommand("setLineWidth", "vkCmdSetLineWidth")

setDepthBias == recordCommand("setDepthBias", "vkCmdSetDepthBias")

copyBuffer == recordCommand("copyBuffer", "vkCmdCopyBuffer")

copyBufferToImage == recordCommand("copyBufferToImage", "vkCmdCopyBufferToImage")

blitImage == recordCommand("blitImage", "vkCmdBlitImage")

ImageLayouts ==
    {"UNDEFINED", "GENERAL", "TRANSFER_DST_OPTIMAL", "SHADER_READ_ONLY_OPTIMAL",
     "DEPTH_STENCIL_ATTACHMENT_OPTIMAL"}

\* the transitions transitionImageLayout has stage masks for
SupportedTransition(oldLayout, newLayout) ==
    \/ oldLayout = "UNDEFINED" /\ newLayout = "TRANSFER_DST_OPTIMAL"
    \/ oldLayout = "TRANSFER_DST_OPTIMAL" /\ newLayout = "SHADER_READ_ONLY_OPTIMAL"
    \/ oldLayout = "UNDEFINED" /\ newLayout = "DEPTH_STENCIL_ATTACHMENT_OPTIMAL"

\* the record of one transitionImageLayout call
TransitionCall(oldLayout, newLayout, threw) ==
    [CmdCall("transitionImageLayout", threw, TRUE)
        EXCEPT !.oldLayout = oldLayout, !.newLayout = newLayout]

\* transitionImageLayout that records a barrier for every pair of layouts
transitionImageLayout_NoThrow(oldLayout, newLayout) ==
    /\ UNCHANGED <<syncVars, loopVars, allocVars, shaderVars, pipeVars>>
    /\ CmdCallable
    /\ cmdLast' = TransitionCall(oldLayout, newLayout, FALSE)
    /\ IF ~isRecording
       THEN UNCHANGED <<nativeCount, lastNative>>
       ELSE issueNative("vkCmdPipelineBarrier")
    /\ UNCHANGED <<cmdHandle, isRecording>>

\* transitionImageLayout(image, oldLayout, newLayout, aspectMask)
transitionImageLayout(oldLayout, newLayout) ==
    /\ UNCHANGED <<syncVars, loopVars, allocVars, shaderVars, pipeVars>>
    /\ CmdCallable
    /\ IF ~isRecording
       THEN /\ cmdLast' = TransitionCall(oldLayout, newLayout, FALSE)
            /\ UNCHANGED <<nativeCount, lastNative>>
       ELSE IF SupportedTransition(oldLayout, newLayout)
       THEN /\ cmdLast' = TransitionCall(oldLayout, newLayout, FALSE)
            /\ issueNative("vkCmdPipelineBarrier")
       ELSE /\ cmdLast' = TransitionCall(oldLayout, newLayout, TRUE)
            /\ UNCHANGED <<nativeCount, lastNative>>
    /\ UNCHANGED <<cmdHandle, isRecording>>

\* the operations that record into the command buffer
RecordingOps ==
    {"beginRenderPass", "endRenderPass", "bindPipeline", "bindVertexBuffers",
     "bindIndexBuffer", "bindDescriptorSets", "draw", "drawIndexed",
     "setViewport", "setScissor", "setLineWidth", "setDepthBias",
     "copyBuffer", "copyBufferToImage", "blitImage",
     "transitionImageLayout"}

CmdNext ==
    \/ \E nativeOk \in BOOLEAN : CmdCreate(nativeOk)
    \/ CmdDestroy
    \/ \E nativeOk \in BOOLEAN : beginRecording(nativeOk)
    \/ \E nativeOk \in BOOLEAN : endRecording(nativeOk)
    \/ reset
    \/ beginRenderPass
    \/ endRenderPass
    \/ bindPipeline
    \/ bindVertexBuffers
    \/ bindIndexBuffer
    \/ bindDescriptorSets
    \/ draw
    \/ drawIndexed
    \/ setViewport
    \/ setScissor
    \/ setLineWidth
    \/ setDepthBias
    \/ copyBuffer
    \/ copyBufferToImage
    \/ blitImage
    \/ \E oldLayout, newLayout \in ImageLayouts :
          transitionImageLayout(oldLayout, newLayout)

\* ======================================================================
\* PipelineSystem
\* ======================================================================

PipelineNames == {"opaque", "ui"}

\* the fields of VkGraphicsPipelineCreateInfo the code reads: a create-info
\* that passes validation
ValidCreateInfo(dynamic) ==
    [sTypeOk |-> TRUE, stageCount |-> 1, layout |-> 1, renderPass |-> 1,
     pDynamicState |-> dynamic]

\* a zeroed create-info, also the argument recorded for calls that take none
NoCreateInfo ==
    [sTypeOk |-> FALSE, stageCount |-> 0, layout |-> NULL,
     renderPass |-> NULL, pDynamicState |-> FALSE]

\* the create-infos the callers pass: valid ones, ones with a single fault
\* each, and the zeroed one
CreateInfos ==
    {ValidCreateInfo(dynamic) : dynamic \in BOOLEAN}
        \cup {[ValidCreateInfo(FALSE) EXCEPT !.sTypeOk = FALSE],
              [ValidCreateInfo(FALSE) EXCEPT !.stageCount = 0],
              [ValidCreateInfo(FALSE) EXCEPT !.layout = NULL],
              [ValidCreateInfo(FALSE) EXCEPT !.renderPass = NULL],
              NoCreateInfo}

\* the record of one call
PipeCall(op, name, info, nativeCalled, cacheArg, ret, ok) ==
    [op |-> op, name |-> name, info |-> info, nativeCalled |-> nativeCalled,
     cacheArg |-> cacheArg, ret |-> ret, ok |-> ok]

\* a call that takes no create-info and returns nothing
PipeVoidCall(op, name) == PipeCall(op, name, NoCreateInfo, FALSE, NULL, NULL, TRUE)

\* constructor: member initialisers of the class
PipeInit ==
    /\ pipeInitialized = FALSE
    /\ pipelineCacheEnabled = FALSE
    /\ pipelineCache = NULL
    /\ pipelines = {}
    /\ pipelineLayouts = {}
    /\ pipelineStates = << >>
    /\ nativePipelines = {}
    /\ pipelineDestroys = [h \in 1 .. MaxPipelines |-> 0]
    /\ nextPipeline = 1
    /\ nativeCaches = {}
    /\ nextCache = 1
    /\ nextLayout = 1
    /\ pipeLast = PipeVoidCall("none", "")

\* validatePipelineCreateInfo without the tests of layout and render pass
validatePipelineCreateInfo_StagesOnly(info) ==
    /\ info.sTypeOk
    /\ info.stageCount # 0

\* validatePipelineCreateInfo(createInfo)
validatePipelineCreateInfo(info) ==
    /\ info.sTypeOk
    /\ info.stageCount # 0
    /\ info.layout # NULL
    /\ info.renderPass # NULL

\* createPipelineCache(): the handle it returns
createPipelineCache(initialized, nativeOk) ==
    IF initialized /\ nativeOk THEN nextCache ELSE NULL

\* the driver's side of a createPipelineCache() that returned handle c
cacheCreated(c) ==
    /\ nativeCaches' = (nativeCaches \cup {c}) \ {NULL}
    /\ nextCache' = IF c # NULL THEN nextCache + 1 ELSE nextCache

\* vkDestroyPipeline on every handle of the sequence, in order
RECURSIVE destroyedCounts(_, _)
destroyedCounts(counts, handles) ==
    IF handles = << >> THEN counts
    ELSE destroyedCounts([counts EXCEPT ![Head(handles)] = @ + 1], Tail(handles))

\* the elements of a finite set, in some order
RECURSIVE SeqOf(_)
SeqOf(S) ==
    IF S = {} THEN << >>
    ELSE LET x == CHOOSE y \in S : TRUE IN <<x>> \o SeqOf(S \ {x})

\* the non-null pipeline handles held by the entries of m_pipelineStates
StatePipelines ==
    {pipelineStates[n].pipeline : n \in DOMAIN pipelineStates} \ {NULL}

\* initialize(device, renderPass); nativeOk: vkCreatePipelineCache would
\* succeed on this device.  The call record holds nativeOk in ok and the
\* cache handle the call leaves in ret.
PipeInitialize(nativeOk) ==
    /\ UNCHANGED <<syncVars, loopVars, allocVars, shaderVars, cmdVars>>
    /\ IF pipeInitialized
       THEN UNCHANGED <<pipeInitialized, pipelineCache, nativeCaches, nextCache>>
       ELSE LET c == createPipelineCache(pipeInitialized, nativeOk)
            IN  /\ IF pipelineCacheEnabled
                   THEN pipelineCache' = c /\ cacheCreated(c)
                   ELSE UNCHANGED <<pipelineCache, nativeCaches, nextCache>>
                /\ pipeInitialized' = TRUE
    /\ UNCHANGED <<pipelineCacheEnabled, pipelines, pipelineLayouts,
                   pipelineStates, nativePipelines, pipelineDestroys,
                   nextPipeline, nextLayout>>
    /\ pipeLast' = PipeCall("initialize", "", NoCreateInfo, FALSE, NULL,
                            pipelineCache', nativeOk)

\* shutdown(): cleanupPipelineCache, destroyAllPipelineStates,
\* cleanupPipelines, cleanupPipelineLayouts
PipeShutdown ==
    /\ UNCHANGED <<syncVars, loopVars, allocVars, shaderVars, cmdVars>>
    /\ pipeLast' = PipeVoidCall("shutdown", "")
    /\ IF ~pipeInitialized
       THEN UNCHANGED <<pipeInitialized, pipelineCache, nativeCaches, pipelines,
                        pipelineLayouts, pipelineStates, nativePipelines,
                        pipelineDestroys>>
       ELSE /\ nativeCaches' = nativeCaches \ {pipelineCache}
            /\ pipelineCache' = NULL
            /\ pipelineDestroys' =
                   destroyedCounts(pipelineDestroys,
                                   SeqOf(StatePipelines) \o SeqOf(pipelines))
            /\ nativePipelines' = nativePipelines \ (StatePipelines \cup pipelines)
            /\ pipelineStates' = << >>
            /\ pipelines' = {}
            /\ pipelineLayouts' = {}
            /\ pipeInitialized' = FALSE
    /\ UNCHANGED <<pipelineCacheEnabled, nextPipeline, nextCache, nextLayout>>

\* createGraphicsPipeline(createInfo): whether it reaches
\* vkCreateGraphicsPipelines, and the handle it returns
graphicsPipelineNativeCalled(info) ==
    pipeInitialized /\ validatePipelineCreateInfo(info)

graphicsPipelineHandle(info, nativeOk) ==
    IF graphicsPipelineNativeCalled(info) /\ nativeOk THEN nextPipeline ELSE NULL

\* the cache handle createGraphicsPipeline passes to the native call
graphicsPipelineCacheArg(info) ==
    IF graphicsPipelineNativeCalled(info) /\ pipelineCacheEnabled
    THEN pipelineCache ELSE NULL

\* createGraphicsPipeline(createInfo): what it does to the handle-keyed map
\* and the driver when it returns handle p
graphicsPipelineStored(p) ==
    /\ pipelines' = (pipelines \cup {p}) \ {NULL}
    /\ nativePipelines' = (nativePipelines \cup {p}) \ {NULL}
    /\ nextPipeline' = IF p # NULL THEN nextPipeline + 1 ELSE nextPipeline

\* createGraphicsPipeline(createInfo)
CreateGraphicsPipeline(info, nativeOk) ==
    /\ UNCHANGED <<syncVars, loopVars, allocVars, shaderVars, cmdVars>>
    /\ nextPipeline <= MaxPipelines
    /\ LET p == graphicsPipelineHandle(info, nativeOk)
       IN  /\ graphicsPipelineStored(p)
           /\ pipeLast' = PipeCall("createGraphicsPipeline", "", info,
                                   graphicsPipelineNativeCalled(info),
                                   graphicsPipelineCacheArg(info), p, p # NULL)
    /\ UNCHANGED <<pipeInitialized, pipelineCacheEnabled, pipelineCache,
                   pipelineLayouts, pipelineStates, pipelineDestroys,
                   nativeCaches, nextCache, nextLayout>>

\* destroyPipeline(pipeline)
DestroyPipeline(pipeline) ==
    /\ UNCHANGED <<syncVars, loopVars, allocVars, shaderVars, cmdVars>>
    /\ pipeLast' = PipeCall("destroyPipeline", "", NoCreateInfo, FALSE, NULL,
                            pipeline, TRUE)
    /\ IF pipeInitialized /\ pipeline # NULL /\ pipeline \in pipelines
       THEN /\ pipelineDestroys' = destroyedCounts(pipelineDestroys, <<pipeline>>)
            /\ nativePipelines' = nativePipelines \ {pipeline}
            /\ pipelines' = pipelines \ {pipeline}
       ELSE UNCHANGED <<pipelineDestroys, nativePipelines, pipelines>>
    /\ UNCHANGED <<pipeInitialized, pipelineCacheEnabled, pipelineCache,
                   pipelineLayouts, pipelineStates, nextPipeline, nativeCaches,
                   nextCache, nextLayout>>

\* createPipelineLayout(createInfo)
CreatePipelineLayout(nativeOk) ==
    /\ UNCHANGED <<syncVars, loopVars, allocVars, shaderVars, cmdVars>>
    /\ nextLayout <= MaxLayouts
    /\ LET l == IF pipeInitialized /\ nativeOk THEN nextLayout ELSE NULL
       IN  /\ pipelineLayouts' = (pipelineLayouts \cup {l}) \ {NULL}
           /\ nextLayout' = IF l # NULL THEN nextLayout + 1 ELSE nextLayout
           /\ pipeLast' = PipeCall("createPipelineLayout", "", NoCreateInfo,
                                   pipeInitialized, NULL, l, l # NULL)
    /\ UNCHANGED <<pipeInitialized, pipelineCacheEnabled, pipelineCache,
                   pipelines, pipelineStates, nativePipelines, pipelineDestroys,
                   nextPipeline, nativeCaches, nextCache>>

\* destroyPipelineLayout(layout)
DestroyPipelineLayout(layout) ==
    /\ UNCHANGED <<syncVars, loopVars, allocVars, shaderVars, cmdVars>>
    /\ pipeLast' = PipeCall("destroyPipelineLayout", "", NoCreateInfo, FALSE,
                            NULL, layout, TRUE)
    /\ pipelineLayouts' = IF pipeInitialized /\ layout # NULL
                          THEN pipelineLayouts \ {layout} ELSE pipelineLayouts
    /\ UNCHANGED <<pipeInitialized, pipelineCacheEnabled, pipelineCache,
                   pipelines, pipelineStates, nativePipelines, pipelineDestroys,
                   nextPipeline, nativeCaches, nextCache, nextLayout>>

\* enablePipelineCache(enable): whether it reaches vkCreatePipelineCache or
\* vkDestroyPipelineCache
cacheNativeCalled(enable) ==
    /\ pipeInitialized
    /\ \/ enable /\ pipelineCache = NULL
       \/ ~enable /\ pipelineCache # NULL

\* enablePipelineCache that creates a cache whenever it is asked to enable
EnablePipelineCache_AlwaysCreates(enable, nativeOk) ==
    /\ UNCHANGED <<syncVars, loopVars, allocVars, shaderVars, cmdVars>>
    /\ enable /\ pipeInitialized => nextCache <= MaxCaches
    /\ pipelineCacheEnabled' = enable
    /\ IF enable
       THEN LET c == createPipelineCache(pipeInitialized, nativeOk)
            IN  pipelineCache' = c /\ cacheCreated(c)
       ELSE IF pipelineCache # NULL
       THEN /\ nativeCaches' = IF pipeInitialized
                               THEN nativeCaches \ {pipelineCache}
                               ELSE nativeCaches
            /\ pipelineCache' = NULL
            /\ UNCHANGED nextCache
       ELSE UNCHANGED <<pipelineCache, nativeCaches, nextCache>>
    /\ UNCHANGED <<pipeInitialized, pipelines, pipelineLayouts, pipelineStates,
                   nativePipelines, pipelineDestroys, nextPipeline, nextLayout>>
    /\ pipeLast' = PipeCall("enablePipelineCache", "", NoCreateInfo,
                            pipeInitialized, NULL, pipelineCache', enable)

\* enablePipelineCache(enable); the call record holds the argument in ok and
\* the cache handle the call leaves in ret
EnablePipelineCache(enable, nativeOk) ==
    /\ UNCHANGED <<syncVars, loopVars, allocVars, shaderVars, cmdVars>>
    /\ enable /\ pipelineCache = NULL /\ pipeInitialized => nextCache <= MaxCaches
    /\ pipelineCacheEnabled' = enable
    /\ IF enable /\ pipelineCache = NULL
       THEN LET c == createPipelineCache(pipeInitialized, nativeOk)
            IN  pipelineCache' = c /\ cacheCreated(c)
       ELSE IF ~enable /\ pipelineCache # NULL
       THEN /\ nativeCaches' = IF pipeInitialized
                               THEN nativeCaches \ {pipelineCache}
                               ELSE nativeCaches
            /\ pipelineCache' = NULL
            /\ UNCHANGED nextCache
       ELSE UNCHANGED <<pipelineCache, nativeCaches, nextCache>>
    /\ UNCHANGED <<pipeInitialized, pipelines, pipelineLayouts, pipelineStates,
                   nativePipelines, pipelineDestroys, nextPipeline, nextLayout>>
    /\ pipeLast' = PipeCall("enablePipelineCache", "", NoCreateInfo,
                            cacheNativeCalled(enable), NULL, pipelineCache',
                            enable)

\* createPipelineState that stores the state before it looks at the handle
CreatePipelineState_StoresFirst(name, info, nativeOk) ==
    /\ UNCHANGED <<syncVars, loopVars, allocVars, shaderVars, cmdVars>>
    /\ nextPipeline <= MaxPipelines
    /\ IF ~pipeInitialized \/ name = ""
       THEN /\ pipeLast' = PipeCall("createPipelineState", name, info, FALSE,
                                    NULL, NULL, FALSE)
            /\ UNCHANGED <<pipelines, nativePipelines, nextPipeline, pipelineStates>>
       ELSE LET p == graphicsPipelineHandle(info, nativeOk)
            IN  /\ graphicsPipelineStored(p)
                /\ pipeLast' = PipeCall("createPipelineState", name, info,
                                        graphicsPipelineNativeCalled(info),
                                        graphicsPipelineCacheArg(info), p, p # NULL)
                /\ pipelineStates' =
                       WithKey(pipelineStates, name,
                               [pipeline |-> p, layout |-> info.layout,
                                name |-> name,
                                dynamicState |-> info.pDynamicState])
    /\ UNCHANGED <<pipeInitialized, pipelineCacheEnabled, pipelineCache,
                   pipelineLayouts, pipelineDestroys, nativeCaches, nextCache,
                   nextLayout>>

\* createPipelineState(name, createInfo)
CreatePipelineState(name, info, nativeOk) ==
    /\ UNCHANGED <<syncVars, loopVars, allocVars, shaderVars, cmdVars>>
    /\ nextPipeline <= MaxPipelines
    /\ IF ~pipeInitialized \/ name = ""
       THEN /\ pipeLast' = PipeCall("createPipelineState", name, info, FALSE,
                                    NULL, NULL, FALSE)
            /\ UNCHANGED <<pipelines, nativePipelines, nextPipeline, pipelineStates>>
       ELSE LET p == graphicsPipelineHandle(info, nativeOk)
            IN  /\ graphicsPipelineStored(p)
                /\ pipeLast' = PipeCall("createPipelineState", name, info,
                                        graphicsPipelineNativeCalled(info),
                                        graphicsPipelineCacheArg(info), p, p # NULL)
                /\ pipelineStates' =
                       IF p = NULL THEN pipelineStates
                       ELSE WithKey(pipelineStates, name,
                                    [pipeline |-> p, layout |-> info.layout,
                                     name |-> name,
                                     dynamicState |-> info.pDynamicState])
    /\ UNCHANGED <<pipeInitialized, pipelineCacheEnabled, pipelineCache,
                   pipelineLayouts, pipelineDestroys, nativeCaches, nextCache,
                   nextLayout>>

\* destroyPipelineState(name)
DestroyPipelineState(name) ==
    /\ UNCHANGED <<syncVars, loopVars, allocVars, shaderVars, cmdVars>>
    /\ pipeLast' = PipeVoidCall("destroyPipelineState", name)
    /\ IF pipeInitialized /\ name # "" /\ name \in DOMAIN pipelineStates
       THEN LET p == pipelineStates[name].pipeline
            IN  /\ pipelineDestroys' =
                       IF p # NULL THEN destroyedCounts(pipelineDestroys, <<p>>)
                       ELSE pipelineDestroys
                /\ nativePipelines' = nativePipelines \ {p}
                /\ pipelineStates' = WithoutKey(pipelineStates, name)
       ELSE UNCHANGED <<pipelineDestroys, nativePipelines, pipelineStates>>
    /\ UNCHANGED <<pipeInitialized, pipelineCacheEnabled, pipelineCache,
                   pipelines, pipelineLayouts, nextPipeline, nativeCaches,
                   nextCache, nextLayout>>

\* destroyAllPipelineStates()
DestroyAllPipelineStates ==
    /\ UNCHANGED <<syncVars, loopVars, allocVars, shaderVars, cmdVars>>
    /\ pipeLast' = PipeVoidCall("destroyAllPipelineStates", "")
    /\ IF pipeInitialized
       THEN /\ pipelineDestroys' =
                   destroyedCounts(pipelineDestroys, SeqOf(StatePipelines))
            /\ nativePipelines' = nativePipelines \ StatePipelines
            /\ pipelineStates' = << >>
       ELSE UNCHANGED <<pipelineDestroys, nativePipelines, pipelineStates>>
    /\ UNCHANGED <<pipeInitialized, pipelineCacheEnabled, pipelineCache,
                   pipelines, pipelineLayouts, nextPipeline, nativeCaches,
                   nextCache, nextLayout>>

PipeNext ==
    \/ \E nativeOk \in BOOLEAN : PipeInitialize(nativeOk)
    \/ PipeShutdown
    \/ \E info \in CreateInfos, nativeOk \in BOOLEAN :
          CreateGraphicsPipeline(info, nativeOk)
    \/ \E pipeline \in 0 .. MaxPipelines : DestroyPipeline(pipeline)
    \/ \E nativeOk \in BOOLEAN : CreatePipelineLayout(nativeOk)
    \/ \E layout \in 0 .. MaxLayouts : DestroyPipelineLayout(layout)
    \/ \E enable, nativeOk \in BOOLEAN : EnablePipelineCache(enable, nativeOk)
    \/ \E name \in PipelineNames \cup {""}, info \in CreateInfos, nativeOk \in BOOLEAN :
          CreatePipelineState(name, info, nativeOk)
    \/ \E name \in PipelineNames \cup {""} : DestroyPipelineState(name)
    \/ DestroyAllPipelineStates

\* the pipeline system used for handle-keyed pipelines and the cache only
PipeCacheNext ==
    \/ \E nativeOk \in BOOLEAN : PipeInitialize(nativeOk)
    \/ PipeShutdown
    \/ \E info \in CreateInfos, nativeOk \in BOOLEAN :
          CreateGraphicsPipeline(info, nativeOk)
    \/ \E pipeline \in 0 .. MaxPipelines : DestroyPipeline(pipeline)
    \/ \E enable, nativeOk \in BOOLEAN : EnablePipelineCache(enable, nativeOk)

\* ======================================================================
\* TriangleRenderer::initialize / render, main loop, GPU
\* ======================================================================

\* no semaphore
NoSlot == 0 - 1

\* a render() call that has acquired, submitted and presented nothing: the
\* slot it runs in, the slot of the semaphore its successful acquire
\* signals, of the semaphores its submission waits on and signals, and of
\* the semaphore its present waits on
NoFrameOps(slot) ==
    [slot |-> slot, acquired |-> NoSlot, waited |-> NoSlot,
     signaled |-> NoSlot, presented |-> NoSlot]

LoopInit ==
    /\ gpuQueue = <<>>
    /\ pc = "create"
    /\ frameNo = 0
    /\ framesDone = 0
    /\ frame = NoFrameOps(0)

\* initialize(): m_syncObjects->create(); on failure main returns
RenderCreate ==
    /\ UNCHANGED <<allocVars, shaderVars, cmdVars, pipeVars>>
    /\ pc = "create"
    /\ \E failAt \in 0 .. NativeCreates :
          /\ create(failAt)
          /\ pc' = IF failAt = 0 THEN "beginFrame" ELSE "exit"
    /\ UNCHANGED <<gpuQueue, frameNo, framesDone, frame>>

\* render(): m_syncObjects->beginFrame()
RenderBeginFrame ==
    /\ UNCHANGED <<allocVars, shaderVars, cmdVars, pipeVars>>
    /\ pc = "beginFrame"
    /\ frameNo < MaxFrames
    /\ beginFrame
    /\ pc' = "acquire"
    /\ frameNo' = frameNo + 1
    /\ frame' = NoFrameOps(currentFrame)
    /\ UNCHANGED <<gpuQueue, framesDone>>

\* acquireNextImage succeeded
RenderAcquireOk ==
    /\ UNCHANGED <<allocVars, shaderVars, cmdVars, pipeVars>>
    /\ pc = "acquire"
    /\ pc' = "record"
    /\ frame' = [frame EXCEPT !.acquired = currentFrame]
    /\ UNCHANGED <<syncVars, gpuQueue, frameNo, framesDone>>

\* acquireNextImage returned -1: render() returns, no endFrame / nextFrame
RenderAcquireFail ==
    /\ UNCHANGED <<allocVars, shaderVars, cmdVars, pipeVars>>
    /\ pc = "acquire"
    /\ pc' = "beginFrame"
    /\ UNCHANGED <<syncVars, gpuQueue, frameNo, framesDone, frame>>

\* updateUniformBuffer, recordCommandBuffer
RenderRecord ==
    /\ UNCHANGED <<allocVars, shaderVars, cmdVars, pipeVars>>
    /\ pc = "record"
    /\ pc' = "submit"
    /\ UNCHANGED <<syncVars, gpuQueue, frameNo, framesDone, frame>>

\* allocateCommandBuffer + vkQueueSubmit(..., getInFlightFence()); when the
\* allocation or the submit fails nothing is queued and render() goes on
RenderSubmit ==
    /\ UNCHANGED <<allocVars, shaderVars, cmdVars, pipeVars>>
    /\ pc = "submit"
    /\ \E ok \in BOOLEAN :
          /\ gpuQueue' = IF ok THEN Append(gpuQueue, currentFrame) ELSE gpuQueue
          /\ frame' = IF ok THEN [frame EXCEPT !.waited = currentFrame,
                                               !.signaled = currentFrame]
                      ELSE frame
    /\ pc' = "present"
    /\ UNCHANGED <<syncVars, frameNo, framesDone>>

\* presentFrame (its result is ignored)
RenderPresent ==
    /\ UNCHANGED <<allocVars, shaderVars, cmdVars, pipeVars>>
    /\ pc = "present"
    /\ pc' = "endFrame"
    /\ frame' = [frame EXCEPT !.presented = currentFrame]
    /\ UNCHANGED <<syncVars, gpuQueue, frameNo, framesDone>>

RenderEndFrame ==
    /\ UNCHANGED <<allocVars, shaderVars, cmdVars, pipeVars>>
    /\ pc = "endFrame"
    /\ endFrame
    /\ pc' = "nextFrame"
    /\ UNCHANGED <<gpuQueue, frameNo, framesDone, frame>>

RenderNextFrame ==
    /\ UNCHANGED <<allocVars, shaderVars, cmdVars, pipeVars>>
    /\ pc = "nextFrame"
    /\ nextFrame
    /\ pc' = "beginFrame"
    /\ framesDone' = framesDone + 1
    /\ UNCHANGED <<gpuQueue, frameNo, frame>>

\* the GPU finishes its oldest submission and signals that submission's fence
GpuComplete ==
    /\ UNCHANGED <<allocVars, shaderVars, cmdVars, pipeVars>>
    /\ gpuQueue # <<>>
    /\ fences' = [fences EXCEPT ![Head(gpuQueue)] = "signaled"]
    /\ gpuQueue' = Tail(gpuQueue)
    /\ UNCHANGED <<syncValid, currentFrame, framesInFlight, semaphores,
                   nativeSyncObjects, syncLast, pc, frameNo, framesDone,
                   frame>>

Init ==
    /\ SyncInit
    /\ LoopInit
    /\ AllocInit
    /\ ShaderInit
    /\ CmdInit
    /\ PipeInit

\* the render loop with every frame running to completion
NextLoop ==
    \/ RenderCreate
    \/ RenderBeginFrame
    \/ RenderAcquireOk
    \/ RenderRecord
    \/ RenderSubmit
    \/ RenderPresent
    \/ RenderEndFrame
    \/ RenderNextFrame
    \/ GpuComplete

\* the render loop, acquire failures included
Next ==
    \/ NextLoop
    \/ RenderAcquireFail

Spec == Init /\ [][Next]_vars

SpecLoop == Init /\ [][NextLoop]_vars

\* SyncObjects called in any order
SpecSync == Init /\ [][SyncNext]_vars

\* callers that bring a component up, use it and tear it down, and also call
\* it while it is down.  The four components share no state, so one of them
\* is exercised at a time, the other three being as constructed.
AllocatorUninitNext ==
    \/ AllocInitialize(TypicalLimits)
    \/ \E o \in NativeOutcomes :
          AllocateBuffer("Vertex", 1, o.bufOk, o.typeOk, o.memOk, o.bindOk)
    \/ \E nativeOk \in BOOLEAN : CreateBufferPool("Vertex", MaxSize, nativeOk)
    \/ AllocateFromPool("Vertex", 1)
    \/ \E a \in issued : DeallocateBuffer(a)
    \/ AllocShutdown

PipelineUninitNext ==
    \/ \E nativeOk \in BOOLEAN : PipeInitialize(nativeOk)
    \/ \E info \in CreateInfos, nativeOk \in BOOLEAN :
          CreateGraphicsPipeline(info, nativeOk)
    \/ \E name \in PipelineNames \cup {""}, info \in CreateInfos, nativeOk \in BOOLEAN :
          CreatePipelineState(name, info, nativeOk)
    \/ PipeShutdown

ShaderUninitNext ==
    \/ ShaderInitialize
    \/ \E name \in ShaderNames, vFile, fFile, vMod, fMod \in BOOLEAN,
          relock \in RelockOutcomes :
          LoadShader(name, vFile, fFile, vMod, fMod, relock, 0)
    \/ ShaderShutdown

SyncUninitNext ==
    \/ \E failAt \in 0 .. NativeCreates : SyncCreate(failAt)
    \/ SyncBeginFrame
    \/ SyncEndFrame
    \/ SyncNextFrame
    \/ SyncDestroy

UninitNext ==
    \/ SyncInit /\ PipeInit /\ ShaderInit /\ AllocatorUninitNext
    \/ SyncInit /\ AllocInit /\ ShaderInit /\ PipelineUninitNext
    \/ SyncInit /\ AllocInit /\ PipeInit /\ ShaderUninitNext
    \/ AllocInit /\ PipeInit /\ ShaderInit /\ SyncUninitNext

SpecUninit == Init /\ [][UninitNext]_vars

\* the buffer allocator on its own
SpecAlloc == Init /\ [][AllocNext]_vars

\* the buffer allocator handing out standalone buffers
SpecAllocBuffers == Init /\ [][AllocBufferNext]_vars

\* the buffer allocator handing out pool sub-allocations
SpecAllocPools == Init /\ [][AllocPoolNext]_vars

\* the buffer allocator handing out persistently mapped buffers
SpecAllocMapped == Init /\ [][AllocMappedNext]_vars

\* the buffer allocator initialized on any device and asked for alignments
SpecAllocAlign == Init /\ [][AllocAlignNext]_vars

\* the buffer allocator called from several threads
SpecAllocThreads == Init /\ [][AllocThreadsNext]_vars

\* the buffer allocator with callers handing back copies of allocations
SpecAllocCopy == Init /\ [][AllocCopyNext]_vars

\* the buffer allocator with callers mapping and unmapping their buffers
SpecAllocMapping == Init /\ [][AllocMappingNext]_vars

\* the shader system with hot reload and the files changing on disk
SpecShaderReload == Init /\ [][ShaderReloadNext]_vars
SpecShaderFiles == Init /\ [][ShaderFilesNext]_vars

\* the shader system on its own
SpecShader == Init /\ [][ShaderNext]_vars

\* one command buffer on its own
SpecCmd == Init /\ [][CmdNext]_vars

\* the pipeline system on its own
SpecPipe == Init /\ [][PipeNext]_vars

\* the pipeline system with its cache switched on and off
SpecPipeCache == Init /\ [][PipeCacheNext]_vars

\* ======================================================================
\* Frame synchronization: claims
\* ======================================================================

\* C1: every beginFrame waits until inFlightFences[currentFrame] is signaled
\* before it resets the fence and counts the frame, whatever framesInFlight
\* is: a beginFrame step is only ever taken with the current fence signaled.
C1_BeginFrameWaitsForFence ==
    [][(pc = "beginFrame" /\ pc' = "acquire")
          => fences[currentFrame] = "signaled"]_vars

\* C2: the CPU never resets slot s's fence and never records or submits
\* slot s's frame while GPU work submitted with slot s is still executing.
C2_NoSlotReuseWhileGpuBusy ==
    [][(pc \in {"beginFrame", "record", "submit"} /\ pc' # pc)
          => gpuPending(currentFrame) = 0]_vars

\* C3: with every frame running beginFrame, endFrame, nextFrame,
\* framesInFlight never exceeds maxFramesInFlight.
C3_FramesInFlightBounded == framesInFlight <= MaxFramesInFlight

\* several frames into the loop, a frame is begun while the GPU still works
C3_Witness ==
    /\ framesDone >= MaxFramesInFlight + 1
    /\ framesInFlight = 1
    /\ gpuQueue # <<>>

\* C4: only nextFrame changes currentFrame, to (currentFrame + 1) mod
\* maxFramesInFlight; currentFrame stays in [0, maxFramesInFlight) and after
\* n completed frames it is n mod maxFramesInFlight (0,1,0,1,... for 2).
C4_CurrentFrameCycles ==
    /\ [](currentFrame \in Slots /\ currentFrame = framesDone % MaxFramesInFlight)
    /\ [][currentFrame' # currentFrame
             => /\ pc = "nextFrame"
                /\ currentFrame' = (currentFrame + 1) % MaxFramesInFlight]_vars

\* the index has gone round once and on
C4_Witness == framesDone = MaxFramesInFlight + 1 /\ currentFrame = 1

\* C5: after a failed acquire a later render() can begin a frame again: when
\* render() is about to call beginFrame, the wait in it can still end (the
\* fence is signaled, or is not waited for, or pending GPU work will signal it).
C5_BeginFrameCanReturn ==
    (pc = "beginFrame" /\ syncValid)
        => \/ framesInFlight = 0
           \/ fences[currentFrame] = "signaled"
           \/ gpuPending(currentFrame) > 0

\* ======================================================================
\* Buffer allocator: claims
\* ======================================================================

\* no pool of the given type has room for the request
NoPoolFits(type, size) ==
    \A i \in DOMAIN bufferPools : ~PoolFits(bufferPools[i], type, size)

\* C6: in every pool usedSize <= totalSize and the bytes handed out of the
\* pool never exceed totalSize; an allocateFromPool request that fits no
\* matching pool returns the null-handle allocation and changes no usedSize.
C6_PoolWithinBudget ==
    /\ [](\A i \in DOMAIN bufferPools :
             /\ bufferPools[i].usedSize <= bufferPools[i].totalSize
             /\ poolHandedOut[bufferPools[i].buffer] <= bufferPools[i].totalSize)
    /\ [][(/\ allocLast'.op = "allocateFromPool"
           /\ allocInitialized
           /\ NoPoolFits(allocLast'.type, allocLast'.size))
             => /\ allocLast'.ret.buffer = NULL
                /\ UsedSizes' = UsedSizes]_vars

\* a pool that is full to the last byte has just refused a request
C6_Witness ==
    /\ allocLast.op = "allocateFromPool"
    /\ allocLast.ret.buffer = NULL
    /\ \E i \in DOMAIN bufferPools :
          /\ bufferPools[i].type = allocLast.type
          /\ bufferPools[i].usedSize = bufferPools[i].totalSize
          /\ Len(bufferPools[i].allocations) >= 2

\* C7: a successful allocateBuffer followed immediately by deallocateBuffer
\* of the returned allocation restores totalAllocatedMemory and bufferCount.
C7_AllocateDeallocateRoundTrip ==
    allocLast.op = "roundTrip"
        => /\ totalAllocatedMemory = allocLast.pre.total
           /\ bufferCount = allocLast.pre.buffers

\* a round trip made while another buffer is allocated
C7_Witness ==
    /\ allocLast.op = "roundTrip"
    /\ allocLast.ret.buffer # NULL
    /\ allocLast.ret.size = MaxSize
    /\ allocLast.pre.total > 0

\* C17: after deallocateBuffer(a) on a live standalone allocation a, neither
\* the handle-to-allocation map nor the list of allocations has an entry for
\* the buffer handle a had.
\* (deallocateBuffer is the one operation that destroys the buffer of a
\* standalone allocation and leaves the allocator initialized.)
C17_DeallocatedNotTracked ==
    [][\A h \in nativeBuffers \ PoolBuffers :
          (h \notin nativeBuffers' /\ allocInitialized')
             => /\ \A e \in bufferMap' : e.buffer # h
                /\ \A i \in DOMAIN allocations' : allocations'[i].buffer # h]_vars

\* C18: allocateBuffer returns the null-handle allocation and leaves the
\* three counters and both tracking structures as they were when the
\* allocator is not initialized, when vkCreateBuffer fails, and when no
\* memory type has the requested properties, with and without a memory
\* manager.
C18_FailedAllocateChangesNothing ==
    [][(allocLast'.op = "allocateBuffer" /\ allocLast'.cause # "none")
          => /\ allocLast'.ret = NullAllocation
             /\ totalAllocatedMemory' = totalAllocatedMemory
             /\ bufferCount' = bufferCount
             /\ allocationCount' = allocationCount
             /\ allocations' = allocations
             /\ bufferMap' = bufferMap]_vars

\* C19: an allocation returned by allocateBuffer, createUniformBuffer,
\* createStagingBuffer or allocateFromPool with a non-null buffer handle has
\* a non-null memory handle.
C19_BufferHasMemory ==
    (/\ allocLast.op \in {"allocateBuffer", "createUniformBuffer",
                          "createStagingBuffer", "allocateFromPool"}
     /\ allocLast.ret.buffer # NULL)
        => allocLast.ret.memory # NULL

\* C20: an allocation returned by createUniformBuffer or createStagingBuffer
\* with a non-null buffer handle has persistentMapping = true and a non-null
\* mappedPtr.
C20_HelpersReturnMapped ==
    (/\ allocLast.op \in {"createUniformBuffer", "createStagingBuffer"}
     /\ allocLast.ret.buffer # NULL)
        => /\ allocLast.ret.persistentMapping
           /\ allocLast.ret.mappedPtr # NULL

\* C22: on an initialized allocator, whatever limits the device reports (0
\* included), getAlignmentRequirement(T) >= 1 for every buffer type T and
\* getAlignmentRequirement(Uniform) >= 256.
C22_AlignmentFloors ==
    allocInitialized =>
        /\ \A t \in BufferTypes : getAlignmentRequirement(t) >= 1
        /\ getAlignmentRequirement("Uniform") >= 256

\* getAlignmentRequirement has returned the floor on a device that reports 0
C22_Witness ==
    /\ allocInitialized
    /\ allocLast.op = "getAlignmentRequirement"
    /\ allocLast.type = "Uniform"
    /\ allocLast.size = 256
    /\ alignments["Storage"] = 1

\* a pool with its bookkeeping list left out
PoolState(pool) ==
    [type |-> pool.type, buffer |-> pool.buffer, memory |-> pool.memory,
     totalSize |-> pool.totalSize, usedSize |-> pool.usedSize]

AllocTracking ==
    <<allocInitialized, memoryManager, alignments, allocations, bufferMap,
      bufferPools, totalAllocatedMemory, bufferCount, allocationCount,
      nextHandle, nativeBuffers, nativeMemory, issued, poolHandedOut>>

\* unmapBuffer on an allocation that is not mapped makes no native unmap and
\* changes nothing
UnmapOfUnmappedIsNoOp ==
    (allocLast'.op = "unmapBuffer" /\ allocLast'.arg.mappedPtr = NULL)
        => /\ ~allocLast'.native
           /\ allocLast'.ret = allocLast'.arg
           /\ AllocTracking' = AllocTracking

\* a mapBuffer call on an unmapped live allocation directly followed by a
\* mapBuffer call on the same object
MapTwice ==
    /\ allocLast.op = "mapBuffer"
    /\ allocLast.arg.buffer # NULL
    /\ allocLast.arg.mappedPtr = NULL
    /\ allocLast'.op = "mapBuffer"
    /\ allocLast'.arg = allocLast.ret

\* the two calls return the same pointer and make one native map between them
SamePointerOneMap ==
    /\ allocLast'.ptr = allocLast.ptr
    /\ allocLast.native # allocLast'.native

MapModules == UNION {EntryModules(shaders[n]) : n \in DOMAIN shaders}

\* C8: loadShader on a name that is already loaded, with both files read and
\* both modules created, ends with one entry for the name holding a new live
\* pair of modules, the earlier pair destroyed and no other module left alive.
C8_ReloadLeavesOnePair ==
    (shaderLast.op = "loadShader" /\ shaderLast.reload /\ shaderLast.native)
        => /\ shaderLast.result = "true"
           /\ shaderLast.name \in DOMAIN shaders
           /\ shaderLast.old \cap shaderModules = {}
           /\ Cardinality(EntryModules(shaders[shaderLast.name])) = 2
           /\ EntryModules(shaders[shaderLast.name]) \cap shaderLast.old = {}
           /\ shaderModules = MapModules

\* C16: every entry of the shader map has loaded = true and both module
\* handles non-null; a loadShader or loadShaderFromSPIRV in which the
\* creation of a module fails stores no entry for the name and leaves no
\* module it created alive.
C16_NoPartialShader ==
    /\ [](\A n \in DOMAIN shaders :
             /\ shaders[n].loaded
             /\ shaders[n].vertexShader # NULL
             /\ shaders[n].fragmentShader # NULL)
    /\ [][(/\ shaderLast'.op \in {"loadShader", "loadShaderFromSPIRV"}
           /\ shaderLast'.result = "false"
           /\ shaderInitialized
           /\ shaderLast'.files
           /\ ~(shaderLast'.vMod /\ shaderLast'.fMod))
             => /\ shaderLast'.name \notin DOMAIN shaders'
                /\ shaderModules' \subseteq shaderModules]_vars

\* with another shader loaded, the fragment module of a new name was not
\* created after its vertex module was
C16_Witness ==
    /\ shaderLast.op = "loadShaderFromSPIRV"
    /\ shaderLast.result = "false"
    /\ shaderLast.vMod
    /\ ~shaderLast.fMod
    /\ ~shaderLast.reload
    /\ shaderLast.name \notin DOMAIN shaders
    /\ shaders # << >>

\* ======================================================================
\* Command recording surface: claims
\* ======================================================================

\* C9: a draw, bind, set-state, copy, blit, render-pass or barrier operation
\* makes a native call only in Recording state; in NotRecording it makes
\* none and leaves the recording state as it is.
C9_RecordOnlyWhileRecording ==
    [][cmdLast'.op \in RecordingOps
          => /\ (nativeCount' # nativeCount => isRecording)
             /\ (~isRecording => /\ nativeCount' = nativeCount
                                 /\ lastNative' = lastNative
                                 /\ isRecording' = isRecording)
             /\ (isRecording /\ ~cmdLast'.threw => nativeCount' = nativeCount + 1)]_vars

\* draw called on a created command buffer before any beginRecording
C9_Witness ==
    /\ cmdLast.op = "draw"
    /\ cmdHandle # NULL
    /\ ~isRecording
    /\ nativeCount = 0

\* C10: beginRecording while Recording makes no native begin and stays in
\* Recording; in NotRecording it makes the native begin and ends in Recording
\* exactly when that call succeeds.
C10_BeginRecording ==
    [][cmdLast'.op = "beginRecording"
          => IF isRecording
             THEN /\ isRecording'
                  /\ nativeCount' = nativeCount
                  /\ lastNative' = lastNative
             ELSE /\ nativeCount' = nativeCount + 1
                  /\ lastNative' = "vkBeginCommandBuffer"
                  /\ isRecording' = cmdLast'.nativeOk]_vars

\* beginRecording called again after a draw was recorded
C10_Witness ==
    /\ cmdLast.op = "beginRecording"
    /\ isRecording
    /\ lastNative = "vkCmdDraw"

\* C11: endRecording in Recording makes the native end and leaves the
\* surface in NotRecording; in NotRecording it makes no native call and
\* changes nothing.
C11_EndRecording ==
    [][cmdLast'.op = "endRecording"
          => IF isRecording
             THEN /\ nativeCount' = nativeCount + 1
                  /\ lastNative' = "vkEndCommandBuffer"
                  /\ ~isRecording'
             ELSE /\ nativeCount' = nativeCount
                  /\ lastNative' = lastNative
                  /\ ~isRecording']_vars

\* C12: reset makes the native reset only in NotRecording; while Recording
\* it makes no native call and the surface stays in Recording.
C12_ResetOnlyWhenNotRecording ==
    [][cmdLast'.op = "reset"
          => IF isRecording
             THEN /\ nativeCount' = nativeCount
                  /\ lastNative' = lastNative
                  /\ isRecording'
             ELSE /\ nativeCount' = nativeCount + 1
                  /\ lastNative' = "vkResetCommandBuffer"
                  /\ ~isRecording']_vars

\* reset called in the middle of a recording, after a draw was recorded
C12_Witness ==
    /\ cmdLast.op = "reset"
    /\ isRecording
    /\ lastNative = "vkCmdDraw"

\* C13: while Recording, transitionImageLayout records a pipeline barrier
\* for undefined->transfer-dst, transfer-dst->shader-read-only and
\* undefined->depth-stencil-attachment, and only for these; for any other
\* pair it throws, records no barrier and stays in Recording.
C13_TransitionImageLayout ==
    [][(cmdLast'.op = "transitionImageLayout" /\ isRecording)
          => IF \/ /\ cmdLast'.oldLayout = "UNDEFINED"
                   /\ cmdLast'.newLayout \in {"TRANSFER_DST_OPTIMAL",
                                              "DEPTH_STENCIL_ATTACHMENT_OPTIMAL"}
                \/ /\ cmdLast'.oldLayout = "TRANSFER_DST_OPTIMAL"
                   /\ cmdLast'.newLayout = "SHADER_READ_ONLY_OPTIMAL"
             THEN /\ ~cmdLast'.threw
                  /\ nativeCount' = nativeCount + 1
                  /\ lastNative' = "vkCmdPipelineBarrier"
                  /\ isRecording'
             ELSE /\ cmdLast'.threw
                  /\ nativeCount' = nativeCount
                  /\ lastNative' = lastNative
                  /\ isRecording']_vars

\* the reverse of a supported transition was asked for and refused
C13_Witness ==
    /\ cmdLast.op = "transitionImageLayout"
    /\ cmdLast.oldLayout = "SHADER_READ_ONLY_OPTIMAL"
    /\ cmdLast.newLayout = "TRANSFER_DST_OPTIMAL"
    /\ cmdLast.threw
    /\ isRecording
    /\ lastNative = "vkCmdPipelineBarrier"

\* ======================================================================
\* Pipeline system: claims
\* ======================================================================

\* C14: createGraphicsPipeline with stageCount = 0, or a null layout, or a
\* null render pass returns the null handle, does not reach the native
\* creation call and adds nothing to the pipeline map.
C14_InvalidCreateInfoRejected ==
    [][(/\ pipeLast'.op = "createGraphicsPipeline"
        /\ \/ pipeLast'.info.stageCount = 0
           \/ pipeLast'.info.layout = NULL
           \/ pipeLast'.info.renderPass = NULL)
          => /\ pipeLast'.ret = NULL
             /\ ~pipeLast'.nativeCalled
             /\ nextPipeline' = nextPipeline
             /\ nativePipelines' = nativePipelines
             /\ pipelines' = pipelines]_vars

\* an initialized system holding a pipeline has refused a create-info whose
\* only fault is the null render pass
C14_Witness ==
    /\ pipeLast.op = "createGraphicsPipeline"
    /\ pipeInitialized
    /\ pipeLast.info.sTypeOk
    /\ pipeLast.info.stageCount # 0
    /\ pipeLast.info.layout # NULL
    /\ pipeLast.info.renderPass = NULL
    /\ pipeLast.ret = NULL
    /\ pipelines # {}

\* C15: when the pipeline is not created (createGraphicsPipeline returns the
\* null handle), createPipelineState returns false and m_pipelineStates is
\* as it was: no entry inserted, no entry modified.
C15_FailedStateNotStored ==
    [][(pipeLast'.op = "createPipelineState" /\ pipeLast'.ret = NULL)
          => /\ ~pipeLast'.ok
             /\ pipelineStates' = pipelineStates]_vars

\* the native creation failed for a name that already has a state
C15_Witness ==
    /\ pipeLast.op = "createPipelineState"
    /\ pipeInitialized
    /\ pipeLast.nativeCalled
    /\ pipeLast.ret = NULL
    /\ pipeLast.name \in DOMAIN pipelineStates
    /\ pipelineStates[pipeLast.name].pipeline # NULL

\* an enablePipelineCache step on an initialized system
CacheToggled ==
    pipeInitialized /\ pipeLast'.op = "enablePipelineCache"

\* the cache state of the system
CacheState == <<pipelineCacheEnabled, pipelineCache, nativeCaches, nextCache>>

\* enablePipelineCache called right after an enablePipelineCache with the
\* same value
SameValueAgain ==
    /\ CacheToggled
    /\ pipeLast.op = "enablePipelineCache"
    /\ pipeLast.ok = pipeLast'.ok

C25_InitializeCreatesCache ==
    [][/\ (/\ pipeLast'.op = "initialize"
           /\ ~pipeInitialized
           /\ pipelineCacheEnabled
           /\ pipeLast'.ok)
            => pipelineCache' # NULL
       /\ (/\ pipeLast'.op = "createGraphicsPipeline"
           /\ pipeLast'.nativeCalled
           /\ pipelineCacheEnabled)
            => pipeLast'.cacheArg = pipelineCache]_vars

\* the call that has just returned destroyed the pipeline state called n
ExplicitlyDestroyed(n) ==
    \/ pipeLast'.op \in {"destroyAllPipelineStates", "shutdown"}
    \/ pipeLast'.op = "destroyPipelineState" /\ pipeLast'.name = n

\* C26: the handle stored under a name of the pipeline-state map stays the
\* same through every step that is not destroyPipelineState of that name,
\* destroyAllPipelineStates or shutdown; createPipelineState with that name
\* included.
C26_StateHandleImmutable ==
    [][\A n \in DOMAIN pipelineStates :
          ~ExplicitlyDestroyed(n)
             => /\ n \in DOMAIN pipelineStates'
                /\ pipelineStates'[n].pipeline = pipelineStates[n].pipeline]_vars

C28_ReloadKeepsKey ==
    (/\ shaderLast.op \in {"loadShader", "loadShaderFromSPIRV"}
     /\ shaderLast.reload
     /\ shaderLast.result \in {"true", "false"})
        => shaderLast.name \in DOMAIN shaders


\* ----------------------------------------------------------------------
\* SyncObjects: frame counter and creation
\* ----------------------------------------------------------------------

\* C29: on a created SyncObjects, framesInFlight is the number of beginFrame
\* calls not yet matched by an endFrame: a beginFrame adds one, an endFrame
\* takes one away when a frame is begun and leaves the counter at zero when
\* none is, so the unsigned counter never wraps below zero.
C29_FramesInFlightCountsUnmatched ==
    [][syncValid =>
          /\ syncLast'.op = "beginFrame" => framesInFlight' = framesInFlight + 1
          /\ syncLast'.op = "endFrame" =>
                framesInFlight' = IF framesInFlight > 0
                                  THEN framesInFlight - 1
                                  ELSE 0]_vars

\* C30: create() is all-or-nothing: a call that returns true leaves the
\* object valid with every semaphore and fence created, a call that returns
\* false leaves it invalid and leaves alive no native semaphore or fence
\* the call created.
C30_CreateAllOrNothing ==
    [][(~syncValid /\ syncLast'.op = "create") =>
          IF syncLast'.ok
          THEN /\ syncValid'
               /\ \A s \in Slots :
                     /\ semaphores'[s].imageAvailable
                     /\ semaphores'[s].renderFinished
                     /\ fences'[s] = "signaled"
               /\ nativeSyncObjects' = nativeSyncObjects + NativeCreates
          ELSE /\ ~syncValid'
               /\ nativeSyncObjects' = nativeSyncObjects]_vars


\* ----------------------------------------------------------------------
\* Buffer allocator: native objects and counters over whole call sequences
\* ----------------------------------------------------------------------

\* C34: every native buffer and every memory object the allocator created is
\* destroyed or freed at most once, whatever the sequence of allocateBuffer,
\* deallocateBuffer and shutdown: shutdown does not destroy again what
\* deallocateBuffer destroyed.
C34_DestroyedAtMostOnce ==
    \A h \in BufferHandles : bufferDestroys[h] <= 1 /\ memoryFrees[h] <= 1

\* the last call returned an allocation
Allocated ==
    /\ allocLast.op \in {"allocateBuffer", "createUniformBuffer",
                          "createStagingBuffer", "allocateFromPool"}
    /\ allocLast.ret.buffer # NULL

\* C37: the three counters never wrap below zero: a call that returns an
\* allocation adds its size and one to them, and no other call, a
\* deallocation applied to a copy of an allocation already given back
\* included, leaves any of them larger than it was.
C37_CountersNeverWrap ==
    [][IF Allocated'
       THEN /\ totalAllocatedMemory' = totalAllocatedMemory + allocLast'.size
            /\ bufferCount' = bufferCount + 1
            /\ allocationCount' = allocationCount + 1
       ELSE /\ totalAllocatedMemory' <= totalAllocatedMemory
            /\ bufferCount' <= bufferCount
            /\ allocationCount' <= allocationCount]_vars


\* the sum of what the finished updateBufferTracking calls of the threads in
\* S added to the counters
RECURSIVE SumApplied(_)
SumApplied(S) ==
    IF S = {} THEN NoCounters
    ELSE LET t == CHOOSE x \in S : TRUE
             r == SumApplied(S \ {t})
             c == allocThreads[t].applied
         IN  [total |-> (r.total + c.total) % UIntMod,
              buffers |-> (r.buffers + c.buffers) % UIntMod,
              allocs |-> (r.allocs + c.allocs) % UIntMod]

\* C31: with allocateBuffer, deallocateBuffer, allocateFromPool and
\* deallocateFromPool called from several threads, a thread reads or writes
\* the tracking map, the pool list or the counters only while it holds the
\* allocator's mutex, and whenever no call is under way the three counters
\* are what the calls made so far add up to: no update is lost.
C31_NoLostUpdate ==
    /\ \A t \in Threads : allocThreads[t].pc \in InCall => bufferMutex = t
    /\ (\A t \in Threads : allocThreads[t].pc \notin InCall)
          => Counters = SumApplied(Threads)

\* one thread is about to write the counters while another waits for the
\* mutex with an update of its own already made
C31_Witness ==
    \E t1, t2 \in Threads :
       /\ allocThreads[t1].pc = "store"
       /\ allocThreads[t2].pc = "lock"
       /\ allocThreads[t2].applied.buffers # 0


\* ----------------------------------------------------------------------
\* Calls on a component that is down
\* ----------------------------------------------------------------------

\* what BufferAllocator holds, natively and in its members
AllocatorState ==
    <<memoryManager, alignments, allocations, bufferMap, bufferPools,
      totalAllocatedMemory, bufferCount, allocationCount, nextHandle,
      nativeBuffers, nativeMemory, bufferDestroys, memoryFrees>>

\* what PipelineSystem holds
PipelineSystemState ==
    <<pipelineCacheEnabled, pipelineCache, pipelines, pipelineLayouts,
      pipelineStates, nativePipelines, pipelineDestroys, nextPipeline,
      nativeCaches, nextCache, nextLayout>>

\* what ShaderSystem holds
ShaderSystemState ==
    <<shaders, shaderModules, nextModule, shaderMutex, hotReloadEnabled,
      fileWatcher>>

\* C32: a call made while its component is not initialized (before
\* initialize or create, or after shutdown or destroy) returns the failure
\* sentinel, makes no native call and leaves the component as it was.  This
\* covers allocateBuffer, createBufferPool, allocateFromPool and
\* deallocateBuffer of the allocator, createGraphicsPipeline and
\* createPipelineState, loadShader, and beginFrame, endFrame and nextFrame.
C32_CallsWhileDownDoNothing ==
    [][/\ (~allocInitialized /\ ~allocInitialized') =>
             /\ UNCHANGED AllocatorState
             /\ allocLast'.op \in {"allocateBuffer", "allocateFromPool"}
                   => allocLast'.ret = NullAllocation
             /\ allocLast'.op = "createBufferPool" => allocLast'.cause = "failed"
       /\ (~pipeInitialized /\ ~pipeInitialized') =>
             /\ UNCHANGED PipelineSystemState
             /\ pipeLast'.op \in {"createGraphicsPipeline", "createPipelineState"}
                   => /\ pipeLast'.ret = NULL
                      /\ ~pipeLast'.ok
                      /\ ~pipeLast'.nativeCalled
       /\ (~shaderInitialized /\ ~shaderInitialized') =>
             /\ UNCHANGED ShaderSystemState
             /\ shaderLast'.op = "loadShader" => shaderLast'.result = "false"
       /\ (~syncValid /\ syncLast'.op \in {"beginFrame", "endFrame", "nextFrame"})
             => UNCHANGED syncState]_vars

\* a pool sub-allocation was asked of an allocator that had been used and
\* shut down
C32_Witness ==
    /\ ~allocInitialized
    /\ nextHandle > 1
    /\ allocLast.op = "allocateFromPool"
    /\ allocLast.ret = NullAllocation


\* ----------------------------------------------------------------------
\* Render loop: the semaphore chain of one frame
\* ----------------------------------------------------------------------

\* C33: within one render() call the submission is made only after a
\* successful acquire that signals imageAvailableSemaphores[currentFrame],
\* on which it waits, and the present is issued only after a submission of
\* the same call that signals renderFinishedSemaphores[currentFrame], on
\* which it waits: no frame presents without having submitted.
C33_AcquireSubmitPresentChained ==
    /\ frame.waited # NoSlot =>
          /\ frame.acquired = frame.slot
          /\ frame.waited = frame.slot
    /\ frame.presented # NoSlot =>
          /\ frame.signaled = frame.slot
          /\ frame.presented = frame.slot


\* ----------------------------------------------------------------------
\* Pipeline system: native pipelines over whole call sequences
\* ----------------------------------------------------------------------

\* C35: every native pipeline is destroyed at most once, whatever the
\* sequence of createGraphicsPipeline, createPipelineState, destroyPipeline,
\* destroyPipelineState, destroyAllPipelineStates and shutdown: a pipeline
\* made by createPipelineState is not destroyed both with the pipeline
\* states and with the handle-keyed pipeline map.
C35_PipelineDestroyedAtMostOnce ==
    \A h \in DOMAIN pipelineDestroys : pipelineDestroys[h] <= 1


\* ----------------------------------------------------------------------
\* Shader system: the shader mutex
\* ----------------------------------------------------------------------

\* C36: every loadShader, loadShaderFromSPIRV, unloadShader and
\* checkForShaderUpdates call returns, a load of a name that is already
\* loaded included: no call locks the non-recursive shader mutex while it
\* holds it, and the system never deadlocks.
C36_NoSelfDeadlock ==
    /\ shaderMutex = "free"
    /\ shaderLast.result \notin {"blocked", "threw"}
    /\ shaderLast.op \in {"loadShader", "loadShaderFromSPIRV"} => ~shaderLast.reload


\* ----------------------------------------------------------------------
\* Buffer pools: placement of the sub-allocations
\* ----------------------------------------------------------------------

\* the pool has the type asked for and at least size bytes left
HasRoom(pool, type, size) ==
    pool.type = type /\ pool.totalSize - pool.usedSize >= size

\* C38: allocateFromPool(type, size) serves the request from the first pool,
\* in creation order, of that type with at least size bytes left: the
\* allocation starts at that pool's usedSize, which is where the bytes
\* handed out of the pool so far end, and usedSize advances by size, so the
\* ranges handed out of one pool never overlap.  With no such pool the call
\* returns the null allocation and changes no pool.
C38_FirstFitBump ==
    [][(allocInitialized /\ allocLast'.op = "allocateFromPool") =>
          LET type == allocLast'.type
              size == allocLast'.size
              ret == allocLast'.ret
              fits == {i \in DOMAIN bufferPools : HasRoom(bufferPools[i], type, size)}
          IN  IF fits = {}
              THEN ret = NullAllocation /\ bufferPools' = bufferPools
              ELSE \E i \in fits :
                      /\ \A j \in fits : i <= j
                      /\ ret.buffer = bufferPools[i].buffer
                      /\ ret.size = size
                      /\ ret.offset = bufferPools[i].usedSize
                      /\ ret.offset = poolHandedOut[ret.buffer]
                      /\ \A a \in issued :
                            a.buffer = ret.buffer => a.offset + a.size <= ret.offset
                      /\ bufferPools'[i].usedSize = bufferPools[i].usedSize + size
                      /\ \A j \in DOMAIN bufferPools :
                            j # i => bufferPools'[j] = bufferPools[j]]_vars

\* the request was served from the second pool, the first one being of the
\* type asked for but too full
C38_Witness ==
    /\ allocLast.op = "allocateFromPool"
    /\ Len(bufferPools) = 2
    /\ bufferPools[1].type = allocLast.type
    /\ bufferPools[1].usedSize > 0
    /\ allocLast.ret.buffer = bufferPools[2].buffer

\* C39: the offset of every allocation made by allocateFromPool(type, size)
\* is a multiple of its pool's alignment, which is
\* getAlignmentRequirement(type), whatever sizes were asked for.
C39_PoolOffsetsAligned ==
    \A i \in DOMAIN bufferPools :
       /\ bufferPools[i].alignment = getAlignmentRequirement(bufferPools[i].type)
       /\ \A k \in DOMAIN bufferPools[i].allocations :
             bufferPools[i].allocations[k].offset % bufferPools[i].alignment = 0

\* C40: checkForShaderUpdates flags a shader only if one of its files was
\* written after loadShader: while no file of a loaded shader has changed
\* since it was loaded, no shader has needsReload set, whether hot reload
\* was enabled before or after the load and whichever file is the newer.
C40_UnchangedNeverFlagged ==
    \A n \in DOMAIN shaders : ~shaders[n].needsReload

====
